---- MODULE Spec2Model ----
(***************************************************************************)
(* Pipsqueak: the lock-free mixer source list, the sampler voice, the      *)
(* legacy sample player, the buffers they render into, the buffer store    *)
(* and the audio engine.                                                   *)
(*                                                                         *)
(* SpecMixer  - Mixer::addSource / clearSources on control threads         *)
(*              interleaved statement by statement with Mixer::process on  *)
(*              the audio thread; shared_ptr reference counts are explicit.*)
(* SpecDsp    - one thread driving a Mixer over a Sampler and a            *)
(*              SamplePlayer.                                              *)
(* SpecSampler- one thread driving a Sampler over every configuration.     *)
(* SpecBuffer - one AudioBuffer and its element access paths.              *)
(* SpecStore  - BufferStore::insert / get / erase from two threads, lock   *)
(*              by lock.                                                   *)
(* SpecEngine - AudioEngine::startStream / stopStream, the audio callback  *)
(*              and the destruction of the engine, member by member.       *)
(* SpecVoice  - one SamplerVoice through configure / start / render.       *)
(* SpecNest   - a Mixer holding a Sampler, a SamplePlayer and a second     *)
(*              Mixer, asked whether it is finished.                       *)
(***************************************************************************)
EXTENDS Integers, Sequences, FiniteSets, TLC

\* ------------------------------------------------------------------ bounds
\* Total number of addSource calls in a behaviour (each adds a fresh source).
MaxAdds == 2
\* Total number of clearSources calls in a behaviour.
MaxClears == 1
\* The control threads that call addSource / clearSources.
Writers == {"w1", "w2"}

VARIABLES
    \* ---- Mixer, concurrent view (SpecMixer)
    lists,            \* heap of std::vector<shared_ptr<AudioSource>>: id -> [items, rc, alive]
    srcs,             \* heap of AudioSource objects: id -> [rc, alive]
    activeSources_,   \* Mixer::activeSources_: id of the published list
    wpc,              \* control thread -> position in addSource / clearSources
    wloc,             \* control thread -> locals [source, currentSources, mutableSources]
    apc,              \* audio thread position in Mixer::process
    sourcesToProcess, \* audio thread local: id of the loaded snapshot
    aidx,             \* audio thread: range-for position (1-based)
    processed,        \* history: sources whose process() this call has invoked, in order
    pubDuring,        \* history: contents of every list published since this call began
    snapAtLoad,       \* history: what the last writer had published when this call loaded
    lastPublished,    \* history: the list contents the last storing writer built
    hb,               \* history: <<x, y>> when addSource x returned before addSource y began
    returned,         \* history: addSource calls that have returned
    clears,           \* history: number of clearSources calls begun
    clearHist,        \* history: the sources published when each clearSources call
                      \* began (seen, per thread) and those of the calls that returned (done)
    \* ---- sources rendering into buffers, one call at a time (SpecDsp)
    sampler,          \* a Sampler
    player,           \* a SamplePlayer
    mixer,            \* a Mixer's published source list (over "sampler", "player")
    lastWriter,       \* history: the last Mixer writer call and the list it replaced
    call,             \* history: the last call: its buffer before and after, the
                      \* sources before, isFinished() before, heap allocations
    \* ---- one AudioBuffer (SpecBuffer)
    buf,              \* an AudioBuffer: [numChannels_, numFrames_, data_]
    bcall,            \* history: the last call on buf: arguments, buffer before, thrown?
    \* --- a BufferStore used by several threads
    store,            \* the BufferStore: [ID_, cache_, mutex_]
    bsThreads,        \* per thread: position in insert / get / erase, arguments, locals, result
    bsHist,           \* history: keys returned by insert, buffers handed to insert, keys erased
    \* --- an AudioEngine, its stream and its audio callback
    eng,              \* the AudioEngine: [audio_, mixerBuffer_, destroyed]
    ecall,            \* history: the last engine call or audio callback and what it saw
    \* --- a SamplerVoice used on its own
    voice,
    \* --- a second Mixer, which the first can hold as one of its sources
    submixer          \* its source list, one call at a time

mixVars == <<lists, srcs, activeSources_, wpc, wloc, apc, sourcesToProcess, aidx,
             processed, pubDuring, snapAtLoad, lastPublished, hb, returned, clears,
             clearHist>>

dspVars == <<sampler, player, mixer, lastWriter, call>>

bufVars == <<buf, bcall>>

storeVars == <<store, bsThreads, bsHist>>

engVars == <<eng, ecall>>

sysVars == <<storeVars, engVars, voice, submixer>>

vars == <<mixVars, dspVars, bufVars, sysVars>>

\* ------------------------------------------------------- shared_ptr heap
Occurrences(items, s) == Cardinality({i \in DOMAIN items : items[i] = s})

IsPrefix(p, q) == Len(p) <= Len(q) /\ \A i \in 1..Len(p) : p[i] = q[i]

Heap == [lists |-> lists, srcs |-> srcs]

\* ~vector(): every element shared_ptr is destroyed; a source whose count
\* reaches zero is destroyed with it.
ReleaseSources(ss, items) ==
    [s \in DOMAIN ss |->
        LET rc == ss[s].rc - Occurrences(items, s)
        IN  [rc |-> rc, alive |-> ss[s].alive /\ rc > 0]]

\* Copy-constructing a vector copies every element shared_ptr.
CopySources(ss, items) ==
    [s \in DOMAIN ss |-> [ss[s] EXCEPT !.rc = @ + Occurrences(items, s)]]

\* ~shared_ptr() on list l: the count drops, and at zero the vector is destroyed.
Release(h, l) ==
    LET rc == h.lists[l].rc - 1
    IN  IF rc > 0 \/ ~h.lists[l].alive
        THEN [h EXCEPT !.lists[l].rc = rc]
        ELSE [lists |-> [h.lists EXCEPT ![l].rc = rc, ![l].alive = FALSE],
              srcs  |-> ReleaseSources(h.srcs, h.lists[l].items)]

\* The reference count of a list after std::atomic_load has copied the pointer.
AtomicLoadRc_raw(rc) == rc
AtomicLoadRc(rc) == rc + 1

Acquire(h, l) == [h EXCEPT !.lists[l].rc = AtomicLoadRc(@)]

\* std::atomic_store(&activeSources_, p): p is copied into the member, the
\* previously published pointer is released.
AtomicStore(h, old, p) == Release([h EXCEPT !.lists[p].rc = @ + 1], old)

\* ------------------------------------------------------------ Mixer code
\* mutableSources->push_back(std::move(source))
PushBack_front(items, s) == <<s>> \o items
PushBack(items, s) == Append(items, s)

\* The pointer addSource hands to atomic_store (finalSources).
StoreArg_stale(currentSources, finalSources) == currentSources
StoreArg(currentSources, finalSources) == finalSources

\* The list the range-for of Mixer::process walks: the local snapshot.
IterTarget_member(snapshot, member) == member
IterTarget(snapshot, member) == snapshot

NoLocals == [source |-> 0, currentSources |-> 0, mutableSources |-> 0]

MixerInit ==
    /\ lists = <<[items |-> <<>>, rc |-> 1, alive |-> TRUE]>>
    /\ srcs = <<>>
    /\ activeSources_ = 1
    /\ wpc = [w \in Writers |-> "idle"]
    /\ wloc = [w \in Writers |-> NoLocals]
    /\ apc = "idle"
    /\ sourcesToProcess = 0
    /\ aidx = 0
    /\ processed = <<>>
    /\ pubDuring = {}
    /\ snapAtLoad = <<>>
    /\ lastPublished = <<>>
    /\ hb = {}
    /\ returned = {}
    /\ clears = 0
    /\ clearHist = [seen |-> [w \in Writers |-> {}], done |-> {}]

\* The caller makes a fresh source (its own shared_ptr plus the by-value
\* parameter), and addSource loads the current snapshot.
AddLoad(w) ==
    /\ wpc[w] = "idle"
    /\ Len(srcs) < MaxAdds
    /\ LET s  == Len(srcs) + 1
           h0 == [lists |-> lists, srcs |-> Append(srcs, [rc |-> 2, alive |-> TRUE])]
           h1 == [h0 EXCEPT !.lists[activeSources_].rc = @ + 1]
       IN  /\ lists' = h1.lists
           /\ srcs' = h1.srcs
           /\ wloc' = [wloc EXCEPT ![w] = [source |-> s,
                                           currentSources |-> activeSources_,
                                           mutableSources |-> 0]]
           /\ hb' = hb \cup {<<x, s>> : x \in returned}
    /\ wpc' = [wpc EXCEPT ![w] = "add_copy"]
    /\ UNCHANGED <<activeSources_, apc, sourcesToProcess, aidx, processed, pubDuring,
                   snapAtLoad, lastPublished, returned, clears, clearHist>>
    /\ UNCHANGED <<dspVars, bufVars, sysVars>>

\* make_shared<vector>(*currentSources): a private copy of the list.
AddCopy(w) ==
    /\ wpc[w] = "add_copy"
    /\ LET items == lists[wloc[w].currentSources].items
       IN  /\ lists' = Append(lists, [items |-> items, rc |-> 1, alive |-> TRUE])
           /\ srcs' = CopySources(srcs, items)
           /\ wloc' = [wloc EXCEPT ![w].mutableSources = Len(lists) + 1]
    /\ wpc' = [wpc EXCEPT ![w] = "add_push"]
    /\ UNCHANGED <<activeSources_, apc, sourcesToProcess, aidx, processed, pubDuring,
                   snapAtLoad, lastPublished, hb, returned, clears, clearHist>>
    /\ UNCHANGED <<dspVars, bufVars, sysVars>>

\* push_back(std::move(source)): the parameter's reference moves into the copy.
AddPush(w) ==
    /\ wpc[w] = "add_push"
    /\ lists' = [lists EXCEPT ![wloc[w].mutableSources].items =
                                  PushBack(@, wloc[w].source)]
    /\ wpc' = [wpc EXCEPT ![w] = "add_store"]
    /\ UNCHANGED <<srcs, activeSources_, wloc, apc, sourcesToProcess, aidx, processed,
                   pubDuring, snapAtLoad, lastPublished, hb, returned, clears, clearHist>>
    /\ UNCHANGED <<dspVars, bufVars, sysVars>>

\* finalSources = mutableSources; atomic_store(&activeSources_, finalSources).
AddStore(w) ==
    /\ wpc[w] = "add_store"
    /\ LET m  == wloc[w].mutableSources
           p  == StoreArg(wloc[w].currentSources, m)
           h0 == [Heap EXCEPT !.lists[m].rc = @ + 1]
           h1 == AtomicStore(h0, activeSources_, p)
       IN  /\ lists' = h1.lists
           /\ srcs' = h1.srcs
           /\ activeSources_' = p
           /\ lastPublished' = lists[m].items
           /\ pubDuring' = IF apc = "iter" THEN pubDuring \cup {lists[p].items}
                                           ELSE pubDuring
    /\ wpc' = [wpc EXCEPT ![w] = "add_ret"]
    /\ UNCHANGED <<wloc, apc, sourcesToProcess, aidx, processed, snapAtLoad, hb,
                   returned, clears, clearHist>>
    /\ UNCHANGED <<dspVars, bufVars, sysVars>>

\* addSource returns: finalSources, mutableSources and currentSources are
\* destroyed; the caller then drops its own pointer to the source.
AddRet(w) ==
    /\ wpc[w] = "add_ret"
    /\ LET m  == wloc[w].mutableSources
           h1 == Release(Release(Release(Heap, m), m), wloc[w].currentSources)
           h2 == [h1 EXCEPT !.srcs = ReleaseSources(@, <<wloc[w].source>>)]
       IN  /\ lists' = h2.lists
           /\ srcs' = h2.srcs
    /\ returned' = returned \cup {wloc[w].source}
    /\ wloc' = [wloc EXCEPT ![w] = NoLocals]
    /\ wpc' = [wpc EXCEPT ![w] = "idle"]
    /\ UNCHANGED <<activeSources_, apc, sourcesToProcess, aidx, processed, pubDuring,
                   snapAtLoad, lastPublished, hb, clears, clearHist>>
    /\ UNCHANGED <<dspVars, bufVars, sysVars>>

\* clearSources: make_shared<const vector>() - a new empty list.
ClrNew(w) ==
    /\ wpc[w] = "idle"
    /\ clears < MaxClears
    /\ lists' = Append(lists, [items |-> <<>>, rc |-> 1, alive |-> TRUE])
    /\ wloc' = [wloc EXCEPT ![w].mutableSources = Len(lists) + 1]
    /\ clears' = clears + 1
    /\ clearHist' = [clearHist EXCEPT
                         !.seen[w] = {lists[activeSources_].items[i] :
                                          i \in DOMAIN lists[activeSources_].items}]
    /\ wpc' = [wpc EXCEPT ![w] = "clr_store"]
    /\ UNCHANGED <<srcs, activeSources_, apc, sourcesToProcess, aidx, processed,
                   pubDuring, snapAtLoad, lastPublished, hb, returned>>
    /\ UNCHANGED <<dspVars, bufVars, sysVars>>

\* atomic_store(&activeSources_, emptySources)
ClrStore(w) ==
    /\ wpc[w] = "clr_store"
    /\ LET e  == wloc[w].mutableSources
           h1 == AtomicStore(Heap, activeSources_, e)
       IN  /\ lists' = h1.lists
           /\ srcs' = h1.srcs
           /\ activeSources_' = e
           /\ lastPublished' = lists[e].items
           /\ pubDuring' = IF apc = "iter" THEN pubDuring \cup {lists[e].items}
                                           ELSE pubDuring
    /\ wpc' = [wpc EXCEPT ![w] = "clr_ret"]
    /\ UNCHANGED <<wloc, apc, sourcesToProcess, aidx, processed, snapAtLoad, hb,
                   returned, clears, clearHist>>
    /\ UNCHANGED <<dspVars, bufVars, sysVars>>

\* clearSources returns: emptySources is destroyed.
ClrRet(w) ==
    /\ wpc[w] = "clr_ret"
    /\ LET h1 == Release(Heap, wloc[w].mutableSources)
       IN  /\ lists' = h1.lists
           /\ srcs' = h1.srcs
    /\ clearHist' = [clearHist EXCEPT !.done = @ \cup clearHist.seen[w],
                                      !.seen[w] = {}]
    /\ wloc' = [wloc EXCEPT ![w] = NoLocals]
    /\ wpc' = [wpc EXCEPT ![w] = "idle"]
    /\ UNCHANGED <<activeSources_, apc, sourcesToProcess, aidx, processed, pubDuring,
                   snapAtLoad, lastPublished, hb, returned, clears>>
    /\ UNCHANGED <<dspVars, bufVars, sysVars>>

\* Mixer::process begins: sourcesToProcess = atomic_load(&activeSources_).
ProcLoad ==
    /\ apc \in {"idle", "done"}
    /\ lists' = Acquire(Heap, activeSources_).lists
    /\ sourcesToProcess' = activeSources_
    /\ aidx' = 1
    /\ processed' = <<>>
    /\ pubDuring' = {lists[activeSources_].items}
    /\ snapAtLoad' = lastPublished
    /\ apc' = "iter"
    /\ UNCHANGED <<srcs, activeSources_, wpc, wloc, lastPublished, hb, returned, clears,
                   clearHist>>
    /\ UNCHANGED <<dspVars, bufVars, sysVars>>

\* One iteration of the range-for: source->process(buffer).
ProcStep ==
    /\ apc = "iter"
    /\ LET l == IterTarget(sourcesToProcess, activeSources_)
       IN  /\ aidx <= Len(lists[l].items)
           /\ processed' = Append(processed, lists[l].items[aidx])
    /\ aidx' = aidx + 1
    /\ UNCHANGED <<lists, srcs, activeSources_, wpc, wloc, apc, sourcesToProcess,
                   pubDuring, snapAtLoad, lastPublished, hb, returned, clears, clearHist>>
    /\ UNCHANGED <<dspVars, bufVars, sysVars>>

\* The loop ends and process returns: sourcesToProcess is destroyed.
ProcRet ==
    /\ apc = "iter"
    /\ aidx > Len(lists[IterTarget(sourcesToProcess, activeSources_)].items)
    /\ LET h1 == Release(Heap, sourcesToProcess)
       IN  /\ lists' = h1.lists
           /\ srcs' = h1.srcs
    /\ apc' = "done"
    /\ UNCHANGED <<activeSources_, wpc, wloc, sourcesToProcess, aidx, processed,
                   pubDuring, snapAtLoad, lastPublished, hb, returned, clears, clearHist>>
    /\ UNCHANGED <<dspVars, bufVars, sysVars>>

MixerNext ==
    \/ \E w \in Writers : AddLoad(w)
    \/ \E w \in Writers : AddCopy(w)
    \/ \E w \in Writers : AddPush(w)
    \/ \E w \in Writers : AddStore(w)
    \/ \E w \in Writers : AddRet(w)
    \/ \E w \in Writers : ClrNew(w)
    \/ \E w \in Writers : ClrStore(w)
    \/ \E w \in Writers : ClrRet(w)
    \/ ProcLoad
    \/ ProcStep
    \/ ProcRet

\* =========================================================================
\* Sources and buffers.  Sample values, phase_/step_ and gain_ are exact
\* fractions: a sample value v stands for v / Unit, a phase or step p for
\* p / PhaseDen, a gain or velocity g for g / GainDen.
\* =========================================================================
PhaseDen == 640
GainDen == 2
Unit == PhaseDen * GainDen

Min(a, b) == IF a <= b THEN a ELSE b

\* std::clamp(v, lo, hi)
Clamp_none(v, lo, hi) == v
Clamp(v, lo, hi) == IF v < lo THEN lo ELSE IF hi < v THEN hi ELSE v

RECURSIVE Pow2(_)
Pow2(n) == IF n <= 0 THEN 1 ELSE 2 * Pow2(n - 1)

\* ---------------------------------------------------------- AudioBuffer
\* AudioBuffer(numChannels, numFrames): zero-filled interleaved storage.
AudioBuffer(ch, fr) ==
    [null |-> FALSE, numChannels_ |-> ch, numFrames_ |-> fr,
     data_ |-> [i \in 1..(ch * fr) |-> 0]]

\* A null std::shared_ptr<const AudioBuffer>.
NullBuffer == [null |-> TRUE, numChannels_ |-> 0, numFrames_ |-> 0, data_ |-> <<>>]

\* AudioBuffer::fill(value)
Fill(b, v) == [b EXCEPT !.data_ = [i \in DOMAIN b.data_ |-> v]]

\* A buffer whose channel c holds perChannel[c + 1] in every frame.
ChannelFill(b, perChannel) ==
    [b EXCEPT !.data_ = [i \in DOMAIN b.data_ |->
                            perChannel[((i - 1) % b.numChannels_) + 1]]]

\* channel(c).raw().at(i): *(ptr + i * stride), ptr = dataPtr() + c,
\* as a 1-based position in data_.
RawIndex_planar(b, c, i) == i + c * b.numFrames_ + 1
RawIndex(b, c, i) == c + i * b.numChannels_ + 1

ReadAt(b, c, i) == b.data_[RawIndex(b, c, i)]

\* "+=" on an output sample.
Mix_overwrite(old, add) == add
Mix(old, add) == old + add

\* std::vector::reserve(n): one heap allocation when n > 0.
VectorReserve(n) == IF n > 0 THEN 1 ELSE 0

\* --------------------------------------------------------- SamplerVoice
\* A default-constructed SamplerVoice (req is a history field: the output
\* frames requested from the voice since its last successful start).
VoiceNew ==
    [sample_ |-> NullBuffer, srcChannels_ |-> 0, numFrames_ |-> 0, lastIndex_ |-> 0,
     nativeRate_ |-> 0, engineRate_ |-> 0,
     phase_ |-> 0, step_ |-> PhaseDen, active_ |-> FALSE, gain_ |-> 0, req |-> 0]

Configure(v, sample, nativeRate, engineRate) ==
    [v EXCEPT !.sample_ = sample,
              !.nativeRate_ = nativeRate,
              !.engineRate_ = engineRate,
              !.srcChannels_ = IF ~sample.null THEN sample.numChannels_ ELSE 0,
              !.numFrames_ = IF ~sample.null THEN sample.numFrames_ ELSE 0,
              !.lastIndex_ = IF ~sample.null /\ sample.numFrames_ # 0
                             THEN sample.numFrames_ - 1 ELSE 0]

\* (nativeRate / engineRate) * 2^(semis / 12) * 2^(tuneCents / 1200), for whole
\* octaves (semis a multiple of 12, tuneCents a multiple of 1200).
StepOf_sum(nativeRate, engineRate, semis, tuneCents) ==
    (nativeRate * PhaseDen * (Pow2(semis \div 12) + Pow2(tuneCents \div 1200)))
        \div engineRate
StepOf(nativeRate, engineRate, semis, tuneCents) ==
    LET k == (semis \div 12) + (tuneCents \div 1200)
    IN  (nativeRate * PhaseDen * Pow2(k)) \div (engineRate * Pow2(0 - k))

Start(v, note, velocity, rootNote, tuneCents) ==
    IF v.sample_.null \/ v.numFrames_ < 2 \/ v.nativeRate_ <= 0 \/ v.engineRate_ <= 0
    THEN [v EXCEPT !.active_ = FALSE]
    ELSE LET step == StepOf(v.nativeRate_, v.engineRate_, note - rootNote, tuneCents)
         IN  [v EXCEPT !.step_ = step,
                       !.phase_ = 0,
                       !.gain_ = Clamp(velocity, 0, GainDen),
                       !.active_ = (step > 0),
                       !.req = 0]

Finished_inverted(v) == v.active_
Finished(v) == ~v.active_

\* phase_ += step_
Advance_stuck(phase, step) == phase
Advance(phase, step) == phase + step

\* x0 + (x1 - x0) * frac, or the last frame itself at i == lastIndex_.
Interp(src, c, i, frac, lastIndex) ==
    IF i = lastIndex
    THEN ReadAt(src, c, i)
    ELSE ReadAt(src, c, i) + ((ReadAt(src, c, i + 1) - ReadAt(src, c, i)) * frac) \div PhaseDen

\* One output frame f of the render loop, reading source frame i.
RenderFrame(v, out, f, i, frac) ==
    LET mono  == v.srcChannels_ = 1
        nCopy == Min(out.numChannels_, v.srcChannels_)
        chans == IF mono THEN 0..(out.numChannels_ - 1) ELSE 0..(nCopy - 1)
        s(c)  == Interp(v.sample_, IF mono THEN 0 ELSE c, i, frac, v.lastIndex_)
    IN  [out EXCEPT !.data_ =
            [k \in DOMAIN out.data_ |->
                IF \E c \in chans : k = RawIndex(out, c, f)
                THEN LET c == CHOOSE c \in chans : k = RawIndex(out, c, f)
                     IN  Mix(out.data_[k], (v.gain_ * s(c)) \div GainDen)
                ELSE out.data_[k]]]

RECURSIVE RenderLoop(_, _, _, _)
RenderLoop(v, out, f, framesToRender) ==
    IF f >= framesToRender
    THEN [voice |-> v, out |-> out]
    ELSE LET i == v.phase_ \div PhaseDen
         IN  IF i > v.lastIndex_
             THEN [voice |-> [v EXCEPT !.active_ = FALSE], out |-> out]
             ELSE RenderLoop([v EXCEPT !.phase_ = Advance(@, v.step_)],
                             RenderFrame(v, out, f, i, v.phase_ % PhaseDen),
                             f + 1, framesToRender)

\* SamplerVoice::render; allocs counts the heap allocations of the call.
Render(v, out, framesToRender) ==
    IF ~v.active_ \/ v.sample_.null \/ framesToRender = 0
    THEN [voice |-> v, out |-> out, allocs |-> 0]
    ELSE IF out.numChannels_ = 0 \/ v.srcChannels_ = 0
    THEN [voice |-> [v EXCEPT !.active_ = FALSE, !.req = @ + framesToRender],
          out |-> out, allocs |-> 0]
    ELSE LET r == RenderLoop([v EXCEPT !.req = @ + framesToRender], out, 0, framesToRender)
             w == IF r.voice.phase_ >= r.voice.lastIndex_ * PhaseDen
                  THEN [r.voice EXCEPT !.active_ = FALSE]
                  ELSE r.voice
         IN  [voice |-> w, out |-> r.out,
              allocs |-> VectorReserve(Min(out.numChannels_, v.srcChannels_))
                         + VectorReserve(out.numChannels_)]

\* The source frames the sample of one output frame reads: src[i], and
\* src[i + 1] unless i is the last frame.
InterpReads_pair(i, lastIndex) == {i, i + 1}
InterpReads(i, lastIndex) == IF i = lastIndex THEN {i} ELSE {i, i + 1}

\* The frames the render loop touches from output frame f on: the source
\* frames it reads and the output frames it writes.
RECURSIVE RenderLoopAccesses(_, _, _, _)
RenderLoopAccesses(v, f, framesToRender, acc) ==
    IF f >= framesToRender
    THEN acc
    ELSE LET i == v.phase_ \div PhaseDen
         IN  IF i > v.lastIndex_
             THEN acc
             ELSE RenderLoopAccesses([v EXCEPT !.phase_ = Advance(@, v.step_)],
                                     f + 1, framesToRender,
                                     [reads  |-> acc.reads \cup InterpReads(i, v.lastIndex_),
                                      writes |-> acc.writes \cup {f}])

\* The frames one SamplerVoice::render call touches.
RenderAccesses(v, out, framesToRender) ==
    IF ~v.active_ \/ v.sample_.null \/ framesToRender = 0
           \/ out.numChannels_ = 0 \/ v.srcChannels_ = 0
    THEN [reads |-> {}, writes |-> {}]
    ELSE RenderLoopAccesses(v, 0, framesToRender, [reads |-> {}, writes |-> {}])

\* -------------------------------------------------------------- Sampler
maxPolyphony_ == 1

\* Sampler::Sampler(sampleData)
SamplerNew(sampleData) ==
    [sampleData_ |-> sampleData, nativeRate_ |-> 44100, engineRate_ |-> 48000,
     rootNote_ |-> 48, tuneCents_ |-> 0,
     voices_ |-> [i \in 1..maxPolyphony_ |-> Configure(VoiceNew, sampleData, 44100, 48000)]]

Reconfigure(s) ==
    [s EXCEPT !.voices_ = [i \in DOMAIN s.voices_ |->
                              Configure(s.voices_[i], s.sampleData_, s.nativeRate_,
                                        s.engineRate_)]]

SetEngineRate(s, rate) == Reconfigure([s EXCEPT !.engineRate_ = rate])

SetNativeRate(s, rate) == Reconfigure([s EXCEPT !.nativeRate_ = rate])

SetRootNote_retune(s, note) ==
    [s EXCEPT !.rootNote_ = note,
              !.voices_ = [i \in DOMAIN s.voices_ |->
                              [s.voices_[i] EXCEPT !.step_ = 2 * @]]]
SetRootNote(s, note) == [s EXCEPT !.rootNote_ = note]

SetTuneCents(s, cents) == [s EXCEPT !.tuneCents_ = cents]

SamplerIsFinished(s) == \A i \in DOMAIN s.voices_ : Finished(s.voices_[i])

\* The voice noteOn starts: the first finished one, else voice 0 (index 1 here).
AllocVoice(s) ==
    IF \E i \in DOMAIN s.voices_ : Finished(s.voices_[i])
    THEN CHOOSE i \in DOMAIN s.voices_ :
             /\ Finished(s.voices_[i])
             /\ \A j \in DOMAIN s.voices_ : Finished(s.voices_[j]) => i <= j
    ELSE 1

NoteOn_nosteal(s, note, velocity) ==
    IF \A i \in DOMAIN s.voices_ : ~Finished(s.voices_[i])
    THEN s
    ELSE [s EXCEPT !.voices_[AllocVoice(s)] =
                       Start(@, note, velocity, s.rootNote_, s.tuneCents_)]
NoteOn(s, note, velocity) ==
    IF s.voices_ = <<>>
    THEN s
    ELSE [s EXCEPT !.voices_[AllocVoice(s)] =
                       Start(@, note, velocity, s.rootNote_, s.tuneCents_)]

NoteOff(s, note) == s

RECURSIVE SamplerProcessFrom(_, _, _, _)
SamplerProcessFrom(s, buffer, i, allocs) ==
    IF i > Len(s.voices_)
    THEN [sampler |-> s, out |-> buffer, allocs |-> allocs]
    ELSE IF Finished(s.voices_[i])
    THEN SamplerProcessFrom(s, buffer, i + 1, allocs)
    ELSE LET r == Render(s.voices_[i], buffer, buffer.numFrames_)
         IN  SamplerProcessFrom([s EXCEPT !.voices_[i] = r.voice], r.out, i + 1,
                                allocs + r.allocs)

\* Sampler::process(buffer)
SamplerProcess(s, buffer) == SamplerProcessFrom(s, buffer, 1, 0)


\* --------------------------------------------------------- SamplePlayer
\* SamplePlayer::SamplePlayer(sampleData)
PlayerNew(sampleData) == [sampleData_ |-> sampleData, isPlaying_ |-> FALSE, readPosition_ |-> 0]

Play_resume(p) == [p EXCEPT !.isPlaying_ = TRUE]
Play(p) == [p EXCEPT !.isPlaying_ = TRUE, !.readPosition_ = 0]

Stop(p) == [p EXCEPT !.isPlaying_ = FALSE, !.readPosition_ = 0]

SetPosition(p, newPosition) == [p EXCEPT !.readPosition_ = newPosition]

PlayerIsFinished(p) == ~p.isPlaying_

\* The first early return of SamplePlayer::process.
PlayerIdle_noflag(p) == p.sampleData_.null
PlayerIdle(p) == ~p.isPlaying_ \/ p.sampleData_.null

\* The copy loops of SamplePlayer::process over n output channels.
PlayerCopy_fromStart(p, buffer, framesToRender, n) ==
    LET src == p.sampleData_
        mono == src.numChannels_ = 1
    IN  [buffer EXCEPT !.data_ =
            [k \in DOMAIN buffer.data_ |->
                IF \E c \in 0..(n - 1), f \in 0..(framesToRender - 1) :
                       k = RawIndex(buffer, c, f)
                THEN LET cf == CHOOSE cf \in (0..(n - 1)) \X (0..(framesToRender - 1)) :
                                   k = RawIndex(buffer, cf[1], cf[2])
                     IN  Mix(buffer.data_[k],
                             ReadAt(src, IF mono THEN 0 ELSE cf[1], cf[2]))
                ELSE buffer.data_[k]]]
PlayerCopy(p, buffer, framesToRender, n) ==
    LET src == p.sampleData_
        mono == src.numChannels_ = 1
    IN  [buffer EXCEPT !.data_ =
            [k \in DOMAIN buffer.data_ |->
                IF \E c \in 0..(n - 1), f \in 0..(framesToRender - 1) :
                       k = RawIndex(buffer, c, f)
                THEN LET cf == CHOOSE cf \in (0..(n - 1)) \X (0..(framesToRender - 1)) :
                                   k = RawIndex(buffer, cf[1], cf[2])
                     IN  Mix(buffer.data_[k],
                             ReadAt(src, IF mono THEN 0 ELSE cf[1], p.readPosition_ + cf[2]))
                ELSE buffer.data_[k]]]

\* SamplePlayer::process(buffer)
PlayerProcess(p, buffer) ==
    IF PlayerIdle(p)
    THEN [player |-> p, out |-> buffer, allocs |-> 0]
    ELSE IF p.readPosition_ >= p.sampleData_.numFrames_
    THEN [player |-> [p EXCEPT !.isPlaying_ = FALSE], out |-> buffer, allocs |-> 0]
    ELSE LET srcFrames == p.sampleData_.numFrames_
             framesToRender == Min(buffer.numFrames_, srcFrames - p.readPosition_)
             mono == p.sampleData_.numChannels_ = 1
             n == IF mono THEN buffer.numChannels_
                  ELSE Min(buffer.numChannels_, p.sampleData_.numChannels_)
             pos == p.readPosition_ + framesToRender
         IN  IF framesToRender = 0
             THEN [player |-> p, out |-> buffer, allocs |-> 0]
             ELSE [player |-> [p EXCEPT !.readPosition_ = pos,
                                        !.isPlaying_ = ~(pos >= srcFrames)],
                   out |-> PlayerCopy(p, buffer, framesToRender, n),
                   allocs |-> IF mono THEN VectorReserve(n)
                              ELSE VectorReserve(n) + VectorReserve(n)]

\* ------------------------------------------- Mixer, one call at a time
\* The sources a mixer can hold here: st is [sampler, player].
SourceIsFinished(st, id) ==
    IF id = "sampler" THEN SamplerIsFinished(st.sampler) ELSE PlayerIsFinished(st.player)

\* source->process(buffer), by dynamic type.
SourceProcess(st, id, buffer) ==
    IF id = "sampler"
    THEN LET r == SamplerProcess(st.sampler, buffer)
         IN  [st |-> [st EXCEPT !.sampler = r.sampler], out |-> r.out, allocs |-> r.allocs]
    ELSE LET r == PlayerProcess(st.player, buffer)
         IN  [st |-> [st EXCEPT !.player = r.player], out |-> r.out, allocs |-> r.allocs]

\* Mixer::addSource run to completion: copy of the loaded list, plus the source.
AddSource(currentSources, source) == PushBack(currentSources, source)

\* Mixer::clearSources run to completion: a new empty list replaces the old.
ClearSources_keep(currentSources) == currentSources
ClearSources(currentSources) == <<>>

\* Mixer::isFinished()
MixerIsFinished_any(st, sources) == \E i \in DOMAIN sources : SourceIsFinished(st, sources[i])
MixerIsFinished(st, sources) == \A i \in DOMAIN sources : SourceIsFinished(st, sources[i])

\* Mixer::isFinished() of a mixer whose list may hold a second Mixer (the
\* source "mixer", whose own list is sub): source->isFinished() dispatches to
\* Mixer::isFinished for it.
NestedIsFinished(st, sources, sub) ==
    \A i \in DOMAIN sources :
        IF sources[i] = "mixer" THEN MixerIsFinished(st, sub)
        ELSE SourceIsFinished(st, sources[i])

\* Mixer::process(buffer) over the loaded list, from position i on. contribs
\* is a history value: what each source, in the state it is called in, renders
\* into a zeroed buffer of the same shape.
RECURSIVE MixerProcessFrom(_, _, _, _, _, _)
MixerProcessFrom(st, sources, buffer, i, allocs, contribs) ==
    IF i > Len(sources)
    THEN [st |-> st, out |-> buffer, allocs |-> allocs, contribs |-> contribs]
    ELSE LET r == SourceProcess(st, sources[i], buffer)
             z == SourceProcess(st, sources[i], Fill(buffer, 0))
         IN  MixerProcessFrom(r.st, sources, r.out, i + 1, allocs + r.allocs,
                              Append(contribs, z.out.data_))

MixerProcess(st, sources, buffer) == MixerProcessFrom(st, sources, buffer, 1, 0, <<>>)


\* --------------------------------------- sources and sequential mixer: inputs
\* Frames of the longest sample and of the longest output buffer.
MaxSrcFrames == 3
MaxOutFrames == 4
\* Longest source list of the mixer.
MaxSources == 2

\* A non-zero value callers pre-fill an output buffer with (0.5).
Sentinel == Unit \div 2

\* Sample data: none, too short to play, mono constant 1.0 and 2.0, a mono
\* ramp, and stereo with +1.0 / -1.0.
MonoConst(n, v) == Fill(AudioBuffer(1, n), v * Unit)

MonoRamp(n) == [AudioBuffer(1, n) EXCEPT !.data_ = [i \in 1..n |-> i * Unit]]

Stereo(n) == ChannelFill(AudioBuffer(2, n), <<Unit, 0 - Unit>>)

Samples ==
    {NullBuffer, MonoConst(1, 1), MonoRamp(MaxSrcFrames), Stereo(MaxSrcFrames)}
    \cup {MonoConst(n, 2) : n \in 2..MaxSrcFrames}

\* Output buffers, silent or pre-filled: mono of every length, stereo of one
\* frame and of the longest length, and three channels of one frame.
OutBuffers ==
    {Fill(AudioBuffer(1, fr), v) : fr \in 0..MaxOutFrames, v \in {0, Sentinel}}
    \cup {Fill(AudioBuffer(2, fr), v) : fr \in {1, MaxOutFrames}, v \in {0, Sentinel}}
    \cup {Fill(AudioBuffer(3, 1), Sentinel)}

Rates == {0, 48000}
Notes == {48, 60}
Cents == {0, 1200}
Velocities == {-2, 1, 4}
Positions == {1, MaxSrcFrames + 1}
SourceIds == {"sampler", "player"}

St == [sampler |-> sampler, player |-> player]

NoState == [sampler |-> SamplerNew(NullBuffer), player |-> PlayerNew(NullBuffer)]

\* No call is in progress.
Idle ==
    [op |-> "none", wasFinished |-> FALSE, in |-> NullBuffer, out |-> NullBuffer,
     pre |-> NoState, allocs |-> 0, contribs |-> <<>>, args |-> <<>>]

\* The record of a control-side call of the sampler: its name, its arguments
\* and the state it was made in.
Called(op, args) == [Idle EXCEPT !.op = op, !.pre = St, !.args = args]

DspInit(samplerSamples, playerSamples) ==
    /\ \E s \in samplerSamples : sampler = SamplerNew(s)
    /\ \E s \in playerSamples : player = PlayerNew(s)
    /\ mixer = <<>>
    /\ lastWriter = [op |-> "Mixer", replaced |-> <<>>]
    /\ call = Idle

\* ---- control-side calls (between audio-side calls)
DspSetEngineRate(rates) ==
    /\ call = Idle
    /\ \E r \in rates :
           /\ sampler' = SetEngineRate(sampler, r)
           /\ call' = Called("Sampler::setEngineRate", <<r>>)
    /\ UNCHANGED <<player, mixer, lastWriter>>
    /\ UNCHANGED <<mixVars, bufVars, sysVars>>

DspSetNativeRate(rates) ==
    /\ call = Idle
    /\ \E r \in rates :
           /\ sampler' = SetNativeRate(sampler, r)
           /\ call' = Called("Sampler::setNativeRate", <<r>>)
    /\ UNCHANGED <<player, mixer, lastWriter>>
    /\ UNCHANGED <<mixVars, bufVars, sysVars>>

DspSetRootNote(notes) ==
    /\ call = Idle
    /\ \E n \in notes : sampler' = SetRootNote(sampler, n)
    /\ UNCHANGED <<player, mixer, lastWriter, call>>
    /\ UNCHANGED <<mixVars, bufVars, sysVars>>

DspSetTuneCents(cents) ==
    /\ call = Idle
    /\ \E c \in cents : sampler' = SetTuneCents(sampler, c)
    /\ UNCHANGED <<player, mixer, lastWriter, call>>
    /\ UNCHANGED <<mixVars, bufVars, sysVars>>

DspNoteOn(notes, velocities) ==
    /\ call = Idle
    /\ \E n \in notes, v \in velocities :
           /\ sampler' = NoteOn(sampler, n, v)
           /\ call' = Called("Sampler::noteOn", <<n, v>>)
    /\ UNCHANGED <<player, mixer, lastWriter>>
    /\ UNCHANGED <<mixVars, bufVars, sysVars>>

DspNoteOff(notes) ==
    /\ call = Idle
    /\ \E n \in notes : sampler' = NoteOff(sampler, n)
    /\ UNCHANGED <<player, mixer, lastWriter, call>>
    /\ UNCHANGED <<mixVars, bufVars, sysVars>>

DspPlay ==
    /\ call = Idle
    /\ player' = Play(player)
    /\ call' = Called("SamplePlayer::play", <<>>)
    /\ UNCHANGED <<sampler, mixer, lastWriter>>
    /\ UNCHANGED <<mixVars, bufVars, sysVars>>

DspStop ==
    /\ call = Idle
    /\ player' = Stop(player)
    /\ call' = Called("SamplePlayer::stop", <<>>)
    /\ UNCHANGED <<sampler, mixer, lastWriter>>
    /\ UNCHANGED <<mixVars, bufVars, sysVars>>

DspSetPosition(positions) ==
    /\ call = Idle
    /\ \E n \in positions :
           /\ player' = SetPosition(player, n)
           /\ call' = Called("SamplePlayer::setPosition", <<n>>)
    /\ UNCHANGED <<sampler, mixer, lastWriter>>
    /\ UNCHANGED <<mixVars, bufVars, sysVars>>

DspAddSource ==
    /\ call = Idle
    /\ Len(mixer) < MaxSources
    /\ \E id \in SourceIds : mixer' = AddSource(mixer, id)
    /\ lastWriter' = [op |-> "addSource", replaced |-> mixer]
    /\ UNCHANGED <<sampler, player, call>>
    /\ UNCHANGED <<mixVars, bufVars, sysVars>>

DspClearSources ==
    /\ call = Idle
    /\ mixer' = ClearSources(mixer)
    /\ lastWriter' = [op |-> "clearSources", replaced |-> mixer]
    /\ UNCHANGED <<sampler, player, call>>
    /\ UNCHANGED <<mixVars, bufVars, sysVars>>

\* ---- audio-side calls: the call runs, and call holds its record (as it does
\* ---- for the recorded control-side calls) until the caller has looked at
\* ---- the result (DspReturn)
DspSamplerProcess ==
    /\ call = Idle
    /\ \E b \in OutBuffers :
           LET r == SamplerProcess(sampler, b)
           IN  /\ sampler' = r.sampler
               /\ call' = [op |-> "Sampler::process",
                           wasFinished |-> SamplerIsFinished(sampler),
                           in |-> b, out |-> r.out, pre |-> St,
                           allocs |-> r.allocs, contribs |-> <<>>, args |-> <<>>]
    /\ UNCHANGED <<player, mixer, lastWriter>>
    /\ UNCHANGED <<mixVars, bufVars, sysVars>>

DspPlayerProcess ==
    /\ call = Idle
    /\ \E b \in OutBuffers :
           LET r == PlayerProcess(player, b)
           IN  /\ player' = r.player
               /\ call' = [op |-> "SamplePlayer::process",
                           wasFinished |-> PlayerIsFinished(player),
                           in |-> b, out |-> r.out, pre |-> St,
                           allocs |-> r.allocs, contribs |-> <<>>, args |-> <<>>]
    /\ UNCHANGED <<sampler, mixer, lastWriter>>
    /\ UNCHANGED <<mixVars, bufVars, sysVars>>

DspMixerProcess ==
    /\ call = Idle
    /\ \E b \in OutBuffers :
           LET r == MixerProcess(St, mixer, b)
           IN  /\ sampler' = r.st.sampler
               /\ player' = r.st.player
               /\ call' = [op |-> "Mixer::process",
                           wasFinished |-> MixerIsFinished(St, mixer),
                           in |-> b, out |-> r.out, pre |-> St,
                           allocs |-> r.allocs, contribs |-> r.contribs,
                           args |-> <<>>]
    /\ UNCHANGED <<mixer, lastWriter>>
    /\ UNCHANGED <<mixVars, bufVars, sysVars>>

DspReturn ==
    /\ call # Idle
    /\ call' = Idle
    /\ UNCHANGED <<sampler, player, mixer, lastWriter>>
    /\ UNCHANGED <<mixVars, bufVars, sysVars>>

\* A mixer over one sampler (at the rates it is constructed with) and one
\* sample player, used from one thread.
DspNext ==
    \/ DspNoteOn({48}, {GainDen})
    \/ DspSamplerProcess
    \/ DspPlay
    \/ DspStop
    \/ DspSetPosition(Positions)
    \/ DspPlayerProcess
    \/ DspAddSource
    \/ DspClearSources
    \/ DspMixerProcess
    \/ DspReturn

\* One sampler on its own, over every configuration.
SamplerNext ==
    \/ DspSetEngineRate(Rates)
    \/ DspSetNativeRate(Rates)
    \/ DspSetRootNote(Notes)
    \/ DspSetTuneCents(Cents)
    \/ DspNoteOn(Notes, Velocities)
    \/ DspNoteOff(Notes)
    \/ DspSamplerProcess
    \/ DspReturn

\* =========================================================================
\* One AudioBuffer and the paths to its elements.  Offsets into data_ are
\* 0-based, as in the code; Cell / Store turn them into positions.
\* =========================================================================
\* Largest channel and frame counts of a buffer.
MaxBufChannels == 2
MaxBufFrames == 2

\* Values written, and gain factors.
SampleValues == {0, 1}
Gains == {0, 1}

\* The check of AudioBuffer::at.
AtThrows(b, c, f) == c >= b.numChannels_ \/ f >= b.numFrames_

\* idx of AudioBuffer::at.
AtIndex_planar(b, c, f) == c * b.numFrames_ + f
AtIndex(b, c, f) == f * b.numChannels_ + c

\* AudioBuffer::at_unchecked(c, f): as at for valid indices.
AtUncheckedIndex(b, c, f) == f * b.numChannels_ + c

\* The check of AudioBuffer::channel.
ChannelThrows_never(b, c) == FALSE
ChannelThrows(b, c) == c >= b.numChannels_

\* AudioBuffer::dataPtr() (as an offset) and AudioBuffer::interleaveStride().
DataPtr(b) == 0

InterleaveStride(b) == b.numChannels_

\* A size_t argument handed to an unsigned int parameter keeps its low 32
\* bits. A size_t is held as [hi, lo], its value being hi * 2^32 + lo.
NarrowToUInt(i) == i.lo

\* ChannelView::operator[](frameIndex): buffer_->at(channelIndex_, frameIndex).
ViewIndex(b, c, f) == AtIndex(b, c, f)

\* ChannelView::raw() and RawSpan::at(i).
Raw(b, c) == [ptr |-> DataPtr(b) + c, frames |-> b.numFrames_, stride |-> InterleaveStride(b)]

RawAt_unit(span, i) == span.ptr + i
RawAt(span, i) == span.ptr + i * span.stride

\* ChannelView::begin(), StridedIterator::operator++ and operator*.
Begin(b, c) == [base_ |-> Raw(b, c).ptr, idx_ |-> 0, stride_ |-> Raw(b, c).stride]

End(b, c) == [base_ |-> Raw(b, c).ptr, idx_ |-> Raw(b, c).frames, stride_ |-> Raw(b, c).stride]

Incr(it) == [it EXCEPT !.idx_ = @ + 1]

Deref(it) == it.base_ + it.idx_ * it.stride_

\* The iterator after k increments from begin().
RECURSIVE Nth(_, _)
Nth(it, k) == IF k = 0 THEN it ELSE Nth(Incr(it), k - 1)

\* The element at an offset, and a write to it.
Cell(b, idx) == b.data_[idx + 1]

Store(b, idx, v) == [b EXCEPT !.data_[idx + 1] = v]

\* AudioBuffer(numChannels, numFrames, initialData) over interleaved data.
AudioBufferFrom(ch, fr, initialData) ==
    [AudioBuffer(ch, fr) EXCEPT !.data_ = [i \in 1..(ch * fr) |-> initialData[i]]]

\* ChannelView::fill, applyGain and copyFrom: loops over (*this)[i].
ViewFill(b, c, v) ==
    [b EXCEPT !.data_ = [k \in DOMAIN b.data_ |->
        IF \E i \in 0..(b.numFrames_ - 1) : k = ViewIndex(b, c, i) + 1
        THEN v ELSE b.data_[k]]]

ViewApplyGain(b, c, g) ==
    [b EXCEPT !.data_ = [k \in DOMAIN b.data_ |->
        IF \E i \in 0..(b.numFrames_ - 1) : k = ViewIndex(b, c, i) + 1
        THEN b.data_[k] * g ELSE b.data_[k]]]

ViewCopyFrom(b, c, src) ==
    LET n == Min(Len(src), b.numFrames_)
    IN  [b EXCEPT !.data_ = [k \in DOMAIN b.data_ |->
            IF \E i \in 0..(n - 1) : k = ViewIndex(b, c, i) + 1
            THEN src[(CHOOSE i \in 0..(n - 1) : k = ViewIndex(b, c, i) + 1) + 1]
            ELSE b.data_[k]]]

\* AudioBuffer::fill and applyGain: channel(i).fill / applyGain for each i.
RECURSIVE BufferFillFrom(_, _, _)
BufferFillFrom(b, i, v) ==
    IF i >= b.numChannels_ THEN b ELSE BufferFillFrom(ViewFill(b, i, v), i + 1, v)

RECURSIVE BufferApplyGainFrom(_, _, _)
BufferApplyGainFrom(b, i, g) ==
    IF i >= b.numChannels_ THEN b
    ELSE BufferApplyGainFrom(ViewApplyGain(b, i, g), i + 1, g)

\* AudioBuffer::copyFrom(first, last)
CopyFrom_grow(b, src) ==
    [b EXCEPT !.data_ = src \o SubSeq(b.data_, Len(src) + 1, Len(b.data_))]
CopyFrom(b, src) ==
    LET numToCopy == Min(Len(src), Len(b.data_))
    IN  [b EXCEPT !.data_ = SubSeq(src, 1, numToCopy)
                             \o SubSeq(b.data_, numToCopy + 1, Len(b.data_))]

\* ---- SpecBuffer: inputs and calls
ValidIndex(b, c, f) == c \in 0..(b.numChannels_ - 1) /\ f \in 0..(b.numFrames_ - 1)

\* Source ranges handed to copyFrom and to the constructor from interleaved
\* data: constant, of every length up to one more than the largest buffer.
ConstSeq(n, v) == [i \in 1..n |-> v]

SourceRanges ==
    {ConstSeq(n, v) : n \in 0..(MaxBufChannels * MaxBufFrames + 1), v \in SampleValues}

\* No call on the buffer is in progress.
BufIdle ==
    [op |-> "none", c |-> 0, f |-> 0, v |-> 0, src |-> <<>>, threw |-> FALSE,
     pre |-> NullBuffer, hi |-> 0]

BufCalled(op, c, f, v, src, threw) ==
    [op |-> op, c |-> c, f |-> f, v |-> v, src |-> src, threw |-> threw, pre |-> buf,
     hi |-> 0]

\* No AudioBuffer object is under observation.
BufAtRest == buf = NullBuffer /\ bcall = BufIdle

\* AudioBuffer(numChannels, numFrames), or the constructor from interleaved
\* data: neither looks at numChannels.
BufInit ==
    /\ \E ch \in 0..MaxBufChannels, fr \in 0..MaxBufFrames :
           \/ buf = AudioBuffer(ch, fr)
           \/ buf = AudioBufferFrom(ch, fr, ConstSeq(ch * fr, 1))
    /\ bcall = BufIdle

BufFill ==
    /\ bcall = BufIdle
    /\ \E v \in SampleValues :
           /\ buf' = BufferFillFrom(buf, 0, v)
           /\ bcall' = BufCalled("fill", 0, 0, v, <<>>, FALSE)
    /\ UNCHANGED <<mixVars, dspVars, sysVars>>

BufApplyGain ==
    /\ bcall = BufIdle
    /\ \E g \in Gains :
           /\ buf' = BufferApplyGainFrom(buf, 0, g)
           /\ bcall' = BufCalled("applyGain", 0, 0, g, <<>>, FALSE)
    /\ UNCHANGED <<mixVars, dspVars, sysVars>>

BufCopyFrom ==
    /\ bcall = BufIdle
    /\ \E src \in SourceRanges :
           /\ buf' = CopyFrom(buf, src)
           /\ bcall' = BufCalled("copyFrom", 0, 0, 0, src, FALSE)
    /\ UNCHANGED <<mixVars, dspVars, sysVars>>

\* at(c, f) = v, for any c and f
BufAt ==
    /\ bcall = BufIdle
    /\ \E c \in 0..MaxBufChannels, f \in 0..MaxBufFrames, v \in SampleValues :
           IF AtThrows(buf, c, f)
           THEN /\ buf' = buf
                /\ bcall' = BufCalled("at", c, f, v, <<>>, TRUE)
           ELSE /\ buf' = Store(buf, AtIndex(buf, c, f), v)
                /\ bcall' = BufCalled("at", c, f, v, <<>>, FALSE)
    /\ UNCHANGED <<mixVars, dspVars, sysVars>>

\* at_unchecked(c, f) = v, for valid c and f (its precondition)
BufAtUnchecked ==
    /\ bcall = BufIdle
    /\ \E c \in 0..MaxBufChannels, f \in 0..MaxBufFrames, v \in SampleValues :
           /\ ValidIndex(buf, c, f)
           /\ buf' = Store(buf, AtUncheckedIndex(buf, c, f), v)
           /\ bcall' = BufCalled("at_unchecked", c, f, v, <<>>, FALSE)
    /\ UNCHANGED <<mixVars, dspVars, sysVars>>

\* channel(c), for any c
BufChannel ==
    /\ bcall = BufIdle
    /\ \E c \in 0..MaxBufChannels :
           /\ buf' = buf
           /\ bcall' = BufCalled("channel", c, 0, 0, <<>>, ChannelThrows(buf, c))
    /\ UNCHANGED <<mixVars, dspVars, sysVars>>

\* channel(c)[frameIndex] = v, for any c and any frameIndex hi * 2^32 + lo;
\* the record keeps in f the frame number that reaches AudioBuffer::at.
BufViewIndex ==
    /\ bcall = BufIdle
    /\ \E c \in 0..MaxBufChannels, hi \in {0, 1}, lo \in 0..MaxBufFrames,
          v \in SampleValues :
           LET f == NarrowToUInt([hi |-> hi, lo |-> lo])
           IN  IF ChannelThrows(buf, c) \/ AtThrows(buf, c, f)
               THEN /\ buf' = buf
                    /\ bcall' = [BufCalled("channel[]", c, f, v, <<>>, TRUE)
                                     EXCEPT !.hi = hi]
               ELSE /\ buf' = Store(buf, ViewIndex(buf, c, f), v)
                    /\ bcall' = [BufCalled("channel[]", c, f, v, <<>>, FALSE)
                                     EXCEPT !.hi = hi]
    /\ UNCHANGED <<mixVars, dspVars, sysVars>>

\* channel(c).raw().at(f) = v, for valid c and f (no bounds checks)
BufRawAt ==
    /\ bcall = BufIdle
    /\ \E c \in 0..MaxBufChannels, f \in 0..MaxBufFrames, v \in SampleValues :
           /\ ValidIndex(buf, c, f)
           /\ buf' = Store(buf, RawAt(Raw(buf, c), f), v)
           /\ bcall' = BufCalled("raw.at", c, f, v, <<>>, FALSE)
    /\ UNCHANGED <<mixVars, dspVars, sysVars>>

\* *it = v for the iterator f increments after channel(c).begin()
BufIterator ==
    /\ bcall = BufIdle
    /\ \E c \in 0..MaxBufChannels, f \in 0..MaxBufFrames, v \in SampleValues :
           /\ ValidIndex(buf, c, f)
           /\ buf' = Store(buf, Deref(Nth(Begin(buf, c), f)), v)
           /\ bcall' = BufCalled("iterator", c, f, v, <<>>, FALSE)
    /\ UNCHANGED <<mixVars, dspVars, sysVars>>

\* channel(c).fill(v) / applyGain(g) / copyFrom(src), for any c
BufViewFill ==
    /\ bcall = BufIdle
    /\ \E c \in 0..MaxBufChannels, v \in SampleValues :
           IF ChannelThrows(buf, c)
           THEN /\ buf' = buf
                /\ bcall' = BufCalled("channel.fill", c, 0, v, <<>>, TRUE)
           ELSE /\ buf' = ViewFill(buf, c, v)
                /\ bcall' = BufCalled("channel.fill", c, 0, v, <<>>, FALSE)
    /\ UNCHANGED <<mixVars, dspVars, sysVars>>

BufViewApplyGain ==
    /\ bcall = BufIdle
    /\ \E c \in 0..MaxBufChannels, g \in Gains :
           IF ChannelThrows(buf, c)
           THEN /\ buf' = buf
                /\ bcall' = BufCalled("channel.applyGain", c, 0, g, <<>>, TRUE)
           ELSE /\ buf' = ViewApplyGain(buf, c, g)
                /\ bcall' = BufCalled("channel.applyGain", c, 0, g, <<>>, FALSE)
    /\ UNCHANGED <<mixVars, dspVars, sysVars>>

BufViewCopyFrom ==
    /\ bcall = BufIdle
    /\ \E c \in 0..MaxBufChannels, src \in SourceRanges :
           IF ChannelThrows(buf, c)
           THEN /\ buf' = buf
                /\ bcall' = BufCalled("channel.copyFrom", c, 0, 0, src, TRUE)
           ELSE /\ buf' = ViewCopyFrom(buf, c, src)
                /\ bcall' = BufCalled("channel.copyFrom", c, 0, 0, src, FALSE)
    /\ UNCHANGED <<mixVars, dspVars, sysVars>>

BufReturn ==
    /\ bcall # BufIdle
    /\ bcall' = BufIdle
    /\ UNCHANGED <<buf, mixVars, dspVars, sysVars>>

BufNext ==
    \/ BufFill
    \/ BufApplyGain
    \/ BufCopyFrom
    \/ BufAt
    \/ BufAtUnchecked
    \/ BufChannel
    \/ BufViewIndex
    \/ BufRawAt
    \/ BufIterator
    \/ BufViewFill
    \/ BufViewApplyGain
    \/ BufViewCopyFrom
    \/ BufReturn

\* =========================================================================
\* BufferStore: insert / get / erase from several threads under mutex_.
\* =========================================================================
\* Total number of store calls in a behaviour.
MaxStoreCalls == 4

StoreThreads == {"t1", "t2"}

\* The buffers handed to insert (shared_ptr values; "null" is nullptr).
StoreBuffers == {"b1", "b2"}

\* std::unique_lock (insert, erase) or std::shared_lock (get) on mutex_
\* can be taken.
CanLock_free(m, op) == TRUE
CanLock(m, op) ==
    IF op = "get" THEN m.owner = "none"
    ELSE m.owner = "none" /\ m.shared = {}

\* cache_.find(key) != cache_.end()
Find_never(cache, key) == FALSE
Find(cache, key) == key \in DOMAIN cache

\* The entries the calls so far should have left: every buffer handed to an
\* insert under the key it was stored at, less the keys erased.
Live(h) == [k \in (DOMAIN h.given) \ h.erased |-> h.given[k]]

BsIdle ==
    [pc |-> "idle", op |-> "none", key |-> 0, buffer |-> "null", ID |-> 0,
     ret |-> "none", before |-> {}, exp |-> "none"]

\* The capacity the BufferStore is constructed with.
Capacity == 1

\* BufferStore(capacity)
StoreNew ==
    [capacity_ |-> Capacity, ID_ |-> 0, cache_ |-> <<>>,
     mutex_ |-> [owner |-> "none", shared |-> {}]]

StoreAtRest ==
    /\ store = StoreNew
    /\ bsThreads = [t \in StoreThreads |-> BsIdle]
    /\ bsHist = [keys |-> <<>>, given |-> <<>>, erased |-> {}, calls |-> 0]

\* A thread calls insert(buffer), get(key) or erase(key).
BsCall ==
    /\ bsHist.calls < MaxStoreCalls
    /\ \E t \in StoreThreads :
           /\ bsThreads[t].pc = "idle"
           /\ \E op \in {"insert", "get", "erase"}, key \in 0..MaxStoreCalls,
                 b \in StoreBuffers :
                  /\ op = "insert" => key = 0
                  /\ op # "insert" => b = "b1"
                  /\ bsThreads' = [bsThreads EXCEPT ![t] =
                         [BsIdle EXCEPT !.pc = "lock", !.op = op, !.key = key,
                                        !.buffer = IF op = "insert" THEN b ELSE "null",
                                        !.before = {bsHist.keys[i] : i \in DOMAIN bsHist.keys}]]
    /\ bsHist' = [bsHist EXCEPT !.calls = @ + 1]
    /\ UNCHANGED <<store, mixVars, dspVars, bufVars, engVars, voice, submixer>>

\* std::unique_lock lock(mutex_) / std::shared_lock lock(mutex_)
BsLock ==
    /\ \E t \in StoreThreads :
           /\ bsThreads[t].pc = "lock"
           /\ CanLock(store.mutex_, bsThreads[t].op)
           /\ store' = [store EXCEPT !.mutex_ =
                  IF bsThreads[t].op = "get"
                  THEN [@ EXCEPT !.shared = @ \cup {t}]
                  ELSE [@ EXCEPT !.owner = t]]
           /\ bsThreads' = [bsThreads EXCEPT ![t].pc = "locked"]
    /\ UNCHANGED <<bsHist, mixVars, dspVars, bufVars, engVars, voice, submixer>>

\* insert: const size_t ID = ID_++ (the read of ID_)
BsInsertId ==
    /\ \E t \in StoreThreads :
           /\ bsThreads[t].pc = "locked"
           /\ bsThreads[t].op = "insert"
           /\ bsThreads' = [bsThreads EXCEPT ![t].pc = "store", ![t].ID = store.ID_]
    /\ UNCHANGED <<store, bsHist, mixVars, dspVars, bufVars, engVars, voice, submixer>>

\* insert: the write of ID_, cache_[ID] = std::move(buffer), return ID (the
\* lock is released on the way out)
BsInsertStore ==
    /\ \E t \in StoreThreads :
           LET ID == bsThreads[t].ID
               b  == bsThreads[t].buffer
           IN  /\ bsThreads[t].pc = "store"
               /\ store' = [store EXCEPT
                      !.ID_ = ID + 1,
                      !.cache_ = [k \in (DOMAIN @) \cup {ID} |-> IF k = ID THEN b ELSE @[k]],
                      !.mutex_ = [@ EXCEPT !.owner = IF @ = t THEN "none" ELSE @]]
               /\ bsThreads' = [bsThreads EXCEPT ![t].pc = "done", ![t].ret = ID]
               /\ bsHist' = [bsHist EXCEPT
                      !.given = [k \in (DOMAIN @) \cup {ID} |-> IF k = ID THEN b ELSE @[k]]]
    /\ UNCHANGED <<mixVars, dspVars, bufVars, engVars, voice, submixer>>

\* get: the found buffer or nullptr
BsGet ==
    /\ \E t \in StoreThreads :
           LET key == bsThreads[t].key
           IN  /\ bsThreads[t].pc = "locked"
               /\ bsThreads[t].op = "get"
               /\ store' = [store EXCEPT !.mutex_ = [@ EXCEPT !.shared = @ \ {t}]]
               /\ bsThreads' = [bsThreads EXCEPT
                      ![t].pc = "done",
                      ![t].ret = IF Find(store.cache_, key) THEN store.cache_[key] ELSE "null",
                      ![t].exp = IF key \in DOMAIN Live(bsHist)
                                 THEN Live(bsHist)[key] ELSE "null"]
    /\ UNCHANGED <<bsHist, mixVars, dspVars, bufVars, engVars, voice, submixer>>

\* erase: removes the entry and returns true, or returns false
BsErase ==
    /\ \E t \in StoreThreads :
           LET key   == bsThreads[t].key
               found == Find(store.cache_, key)
           IN  /\ bsThreads[t].pc = "locked"
               /\ bsThreads[t].op = "erase"
               /\ store' = [store EXCEPT
                      !.cache_ = IF found THEN [k \in (DOMAIN @) \ {key} |-> @[k]] ELSE @,
                      !.mutex_ = [@ EXCEPT !.owner = IF @ = t THEN "none" ELSE @]]
               /\ bsThreads' = [bsThreads EXCEPT
                      ![t].pc = "done", ![t].ret = found,
                      ![t].exp = key \in DOMAIN Live(bsHist)]
               /\ bsHist' = [bsHist EXCEPT
                      !.erased = IF found THEN @ \cup {key} ELSE @]
    /\ UNCHANGED <<mixVars, dspVars, bufVars, engVars, voice, submixer>>

\* The call returns to its caller.
BsReturn ==
    /\ \E t \in StoreThreads :
           /\ bsThreads[t].pc = "done"
           /\ bsThreads' = [bsThreads EXCEPT ![t] = BsIdle]
           /\ bsHist' = [bsHist EXCEPT
                  !.keys = IF bsThreads[t].op = "insert"
                           THEN Append(@, bsThreads[t].ret) ELSE @]
    /\ UNCHANGED <<store, mixVars, dspVars, bufVars, engVars, voice, submixer>>

StoreNext ==
    \/ BsCall
    \/ BsLock
    \/ BsInsertId
    \/ BsInsertStore
    \/ BsGet
    \/ BsErase
    \/ BsReturn

\* =========================================================================
\* One SamplerVoice driven through its own interface.
\* =========================================================================
VoiceAtRest == voice = VoiceNew

\* configure(sample, nativeRate, engineRate), at any time
VoiceConfigure ==
    /\ \E s \in Samples, nativeRate \in {0, 44100, 48000}, engineRate \in {0, 48000} :
           voice' = Configure(voice, s, nativeRate, engineRate)
    /\ UNCHANGED <<mixVars, dspVars, bufVars, storeVars, engVars, submixer>>

\* start(note, velocity, rootNote, tuneCents)
VoiceStart ==
    /\ \E note \in Notes, velocity \in Velocities :
           voice' = Start(voice, note, velocity, 48, 0)
    /\ UNCHANGED <<mixVars, dspVars, bufVars, storeVars, engVars, submixer>>

\* render(out, framesToRender) into some output buffer
VoiceRender ==
    /\ \E out \in OutBuffers, framesToRender \in 0..MaxOutFrames :
           /\ framesToRender <= out.numFrames_
           /\ voice' = Render(voice, out, framesToRender).voice
    /\ UNCHANGED <<mixVars, dspVars, bufVars, storeVars, engVars, submixer>>

VoiceNext ==
    \/ VoiceConfigure
    \/ VoiceStart
    \/ VoiceRender

\* =========================================================================
\* AudioEngine: the stream's lifecycle on a control thread, the audio
\* callback on the audio thread, and the destruction of the engine.
\* audio_ is the RtAudio stream: closed, open (stopped) or running, with the
\* channel count and block size it was opened with.
\* =========================================================================
\* info.outputChannels of the device (0: no output), and the block sizes the
\* device negotiates.
DeviceChannels == {0, 1, 2}
BlockSizes == {1, 2}

\* AudioEngine::AudioEngine(). destroyed counts the members destroyed so far,
\* in reverse declaration order: 1 the source list, 2 mixerBuffer_, 3 audio_.
EngineNew ==
    [audio_ |-> [state |-> "closed", nChannels |-> 0, bufferSize |-> 0],
     mixerBuffer_ |-> NullBuffer, destroyed |-> 0]

\* No engine call is in progress.
EIdle ==
    [op |-> "none", ret |-> FALSE, pre |-> EngineNew, srcs |-> <<>>, hw |-> <<>>,
     contribs |-> <<>>, touched |-> FALSE]

EngAtRest == eng = EngineNew /\ ecall = EIdle

\* AudioEngine::startStream. openOk / startOk: whether the device lets
\* openStream / startStream succeed; openStream also fails on a stream that
\* is not closed and on a device without output channels.
StartStream_blind(e, channels, negotiatedBufferSize, openOk, startOk) ==
    [eng |-> [e EXCEPT !.audio_ = [state |-> "running", nChannels |-> channels,
                                   bufferSize |-> negotiatedBufferSize]],
     ret |-> TRUE]
StartStream(e, channels, negotiatedBufferSize, openOk, startOk) ==
    IF e.audio_.state # "closed" \/ channels = 0 \/ ~openOk
    THEN [eng |-> e, ret |-> FALSE]
    ELSE LET opened == [e EXCEPT
                 !.audio_ = [state |-> "open", nChannels |-> channels,
                             bufferSize |-> negotiatedBufferSize],
                 !.mixerBuffer_ = AudioBuffer(channels, negotiatedBufferSize)]
         IN  IF ~startOk
             THEN [eng |-> opened, ret |-> FALSE]
             ELSE [eng |-> [opened EXCEPT !.audio_.state = "running"], ret |-> TRUE]

\* AudioEngine::stopStream. stopOk: whether audio_->stopStream() succeeds;
\* closeStream stops a stream that is still running.
StopStream(e, stopOk) ==
    IF e.audio_.state # "running"
    THEN e
    ELSE LET stopped == IF stopOk THEN [e EXCEPT !.audio_.state = "open"] ELSE e
         IN  IF stopped.audio_.state # "closed"
             THEN [stopped EXCEPT !.audio_.state = "closed"]
             ELSE stopped

\* AudioEngine::processBlock(outputBuffer, numFrames) on live members: load
\* the source list, clear the mix buffer, let every source add to it, copy
\* numFrames * numChannels samples to the hardware buffer.
ProcessBlock(e, st, sources, numFrames) ==
    LET r == MixerProcess(st, sources, Fill(e.mixerBuffer_, 0))
        samplesToCopy == numFrames * r.out.numChannels_
    IN  [eng |-> [e EXCEPT !.mixerBuffer_ = r.out], st |-> r.st,
         hw |-> SubSeq(r.out.data_, 1, samplesToCopy), contribs |-> r.contribs]

EngStartStream ==
    /\ ecall = EIdle
    /\ eng.destroyed = 0
    /\ \E channels \in DeviceChannels, size \in BlockSizes, openOk \in BOOLEAN,
          startOk \in BOOLEAN :
           LET r == StartStream(eng, channels, size, openOk, startOk)
           IN  /\ eng' = r.eng
               /\ ecall' = [EIdle EXCEPT !.op = "startStream", !.ret = r.ret, !.pre = eng]
    /\ UNCHANGED <<mixVars, dspVars, bufVars, storeVars, voice, submixer>>

EngStopStream ==
    /\ ecall = EIdle
    /\ eng.destroyed = 0
    /\ \E stopOk \in BOOLEAN : eng' = StopStream(eng, stopOk)
    /\ ecall' = [EIdle EXCEPT !.op = "stopStream", !.pre = eng]
    /\ UNCHANGED <<mixVars, dspVars, bufVars, storeVars, voice, submixer>>

\* The audio callback, which the stream runs while it is running. On members
\* that are already destroyed the block reads and writes freed memory: the
\* hardware buffer then holds the block's samples or anything else.
EngProcessBlock ==
    /\ ecall = EIdle
    /\ eng.audio_.state = "running"
    /\ eng.destroyed < 3
    /\ \E r \in {ProcessBlock(eng, St, mixer, eng.audio_.bufferSize)} :
           IF eng.destroyed = 0
           THEN /\ eng' = r.eng
                /\ sampler' = r.st.sampler
                /\ player' = r.st.player
                /\ ecall' = [EIdle EXCEPT !.op = "processBlock", !.pre = eng,
                                          !.srcs = mixer, !.hw = r.hw,
                                          !.contribs = r.contribs]
           ELSE /\ \E hw \in {r.hw, [i \in DOMAIN r.hw |-> Sentinel]} :
                       ecall' = [EIdle EXCEPT !.op = "processBlock", !.pre = eng,
                                              !.srcs = mixer, !.hw = hw,
                                              !.contribs = r.contribs,
                                              !.touched = TRUE]
                /\ UNCHANGED <<eng, sampler, player>>
    /\ UNCHANGED <<mixer, lastWriter, call>>
    /\ UNCHANGED <<mixVars, bufVars, storeVars, voice, submixer>>

\* AudioEngine::~AudioEngine: the body only logs; then the members are
\* destroyed one by one, audio_ (and with it the stream) last.
EngDestroy ==
    /\ ecall = EIdle
    /\ eng.destroyed < 3
    /\ eng' = [eng EXCEPT !.destroyed = @ + 1,
                          !.audio_.state = IF eng.destroyed = 2 THEN "closed" ELSE @]
    /\ UNCHANGED <<ecall, mixVars, dspVars, bufVars, storeVars, voice, submixer>>

EngReturn ==
    /\ ecall # EIdle
    /\ ecall' = EIdle
    /\ UNCHANGED <<eng, mixVars, dspVars, bufVars, storeVars, voice, submixer>>

\* The engine with a sample player (and an idle sampler) as its sources.
EngNext ==
    \/ EngStartStream
    \/ EngStopStream
    \/ EngProcessBlock
    \/ EngDestroy
    \/ EngReturn
    \/ DspPlay
    \/ DspReturn
    \/ DspAddSource

\* ------------------------------------------------------------ nested Mixer
\* The most sources the second mixer holds.
MaxNested == 2

\* Mixer::addSource(a second Mixer) on the first mixer.
NestAddMixer ==
    /\ call = Idle
    /\ Len(mixer) < MaxSources
    /\ mixer' = AddSource(mixer, "mixer")
    /\ lastWriter' = [op |-> "addSource", replaced |-> mixer]
    /\ UNCHANGED <<sampler, player, call>>
    /\ UNCHANGED <<mixVars, bufVars, storeVars, engVars, voice, submixer>>

\* Mixer::addSource on the second mixer.
NestAddSource ==
    /\ call = Idle
    /\ Len(submixer) < MaxNested
    /\ \E id \in SourceIds : submixer' = AddSource(submixer, id)
    /\ UNCHANGED <<mixVars, dspVars, bufVars, storeVars, engVars, voice>>

\* Mixer::clearSources on the second mixer.
NestClearSources ==
    /\ call = Idle
    /\ submixer' = ClearSources(submixer)
    /\ UNCHANGED <<mixVars, dspVars, bufVars, storeVars, engVars, voice>>

\* Mixer::isFinished() on the first or on the second mixer; the record keeps
\* the result in wasFinished and the mixer asked in args.
NestIsFinished ==
    /\ call = Idle
    /\ \E m \in {"first", "second"} :
           call' = [Called("Mixer::isFinished", <<m>>) EXCEPT
                       !.wasFinished = IF m = "first"
                                       THEN NestedIsFinished(St, mixer, submixer)
                                       ELSE MixerIsFinished(St, submixer)]
    /\ UNCHANGED <<sampler, player, mixer, lastWriter>>
    /\ UNCHANGED <<mixVars, bufVars, sysVars>>

\* A mixer over a sampler, a sample player and a second mixer over the same
\* two sources.
NestNext ==
    \/ DspNoteOn({48}, {GainDen})
    \/ DspSamplerProcess
    \/ DspPlay
    \/ DspStop
    \/ DspPlayerProcess
    \/ DspAddSource
    \/ DspClearSources
    \/ NestAddMixer
    \/ NestAddSource
    \/ NestClearSources
    \/ NestIsFinished
    \/ DspReturn

\* ------------------------------------------------------- specifications
\* The sources at rest while the mixer's source list is exercised concurrently.
DspAtRest == DspInit({NullBuffer}, {NullBuffer})

SysAtRest == StoreAtRest /\ EngAtRest /\ VoiceAtRest /\ submixer = <<>>

InitMixer == MixerInit /\ DspAtRest /\ BufAtRest /\ SysAtRest

SpecMixer == InitMixer /\ [][MixerNext]_vars

InitDsp ==
    /\ MixerInit
    /\ DspInit({NullBuffer, MonoConst(MaxSrcFrames, 2)},
               {MonoConst(MaxSrcFrames, 1), MonoRamp(MaxSrcFrames), Stereo(MaxSrcFrames)})
    /\ BufAtRest
    /\ SysAtRest

SpecDsp == InitDsp /\ [][DspNext]_vars

InitSampler == MixerInit /\ DspInit(Samples, {NullBuffer}) /\ BufAtRest /\ SysAtRest

SpecSampler == InitSampler /\ [][SamplerNext]_vars

InitBuffer == MixerInit /\ DspAtRest /\ BufInit /\ SysAtRest

SpecBuffer == InitBuffer /\ [][BufNext]_vars

InitStore == MixerInit /\ DspAtRest /\ BufAtRest /\ SysAtRest

SpecStore == InitStore /\ [][StoreNext]_vars

InitEngine ==
    /\ MixerInit
    /\ DspInit({NullBuffer}, {MonoConst(MaxSrcFrames, 1), Stereo(MaxSrcFrames)})
    /\ BufAtRest
    /\ SysAtRest

SpecEngine == InitEngine /\ [][EngNext]_vars

InitNest ==
    /\ MixerInit
    /\ DspInit({MonoConst(MaxSrcFrames, 2)}, {MonoConst(MaxSrcFrames, 1)})
    /\ BufAtRest
    /\ SysAtRest

SpecNest == InitNest /\ [][NestNext]_vars

InitVoice == MixerInit /\ DspAtRest /\ BufAtRest /\ SysAtRest

SpecVoice == InitVoice /\ [][VoiceNext]_vars

\* ------------------------------------------------ claims checked on SpecMixer

\* C1: each Mixer::process call iterates exactly one complete snapshot: what it
\* has processed so far is a prefix of a list that was published at some instant
\* since the call began, and on return it equals such a list in full (never a
\* partial list, never a mixture of two lists).
C1_OneCompleteSnapshot ==
    /\ apc = "iter" => \E p \in pubDuring : IsPrefix(processed, p)
    /\ apc = "done" => processed \in pubDuring

\* A call that returned after processing a non-empty list which a writer
\* replaced in the middle of the call.
C1_Witness ==
    /\ apc = "done"
    /\ Len(processed) >= 1
    /\ Cardinality(pubDuring) >= 2
    /\ processed # lists[activeSources_].items

\* C2: no addition is lost: once every addSource call has returned, with no
\* clearSources at all, the current snapshot holds every added source exactly once.
C2_NoAdditionLost ==
    (clears = 0 /\ \A w \in Writers : wpc[w] = "idle")
        => \A s \in returned : Occurrences(lists[activeSources_].items, s) = 1

\* C3: the snapshot loaded by an in-progress process call, and every source in
\* it, is alive until the call returns.
C3_SnapshotStaysAlive ==
    apc = "iter" =>
        /\ lists[sourcesToProcess].alive
        /\ \A i \in DOMAIN lists[sourcesToProcess].items :
               srcs[lists[sourcesToProcess].items[i]].alive

\* Mid-call, the snapshot has been replaced, every writer has returned and
\* dropped its references: the reader's pointer is the only owner left.
C3_Witness ==
    /\ apc = "iter"
    /\ sourcesToProcess # activeSources_
    /\ lists[sourcesToProcess].rc = 1
    /\ Len(lists[sourcesToProcess].items) >= 1
    /\ \A i \in DOMAIN lists[sourcesToProcess].items :
           srcs[lists[sourcesToProcess].items[i]].rc = 1
    /\ \A w \in Writers : wpc[w] = "idle"

\* C6: within one process call sources are processed in insertion order: a source
\* whose addSource returned before another's began is processed first, and on
\* return every occurrence in the snapshot has been processed exactly once.
C6_InsertionOrder ==
    /\ \A i, j \in DOMAIN processed :
           <<processed[i], processed[j]>> \in hb => i < j
    /\ apc = "done" =>
           \A s \in DOMAIN srcs :
               Occurrences(processed, s) = Occurrences(lists[sourcesToProcess].items, s)

\* A finished call that processed two sources added by sequential addSource calls.
C6_Witness ==
    /\ apc = "done"
    /\ \E i, j \in DOMAIN processed : i < j /\ <<processed[i], processed[j]>> \in hb

\* C7: graph changes are visible at block boundaries: a process call processes
\* exactly the list the last writer had published when the call loaded its
\* snapshot, whatever is written during the call.
C7_VisibleAtBlockBoundary ==
    /\ apc = "iter" => IsPrefix(processed, snapAtLoad)
    /\ apc = "done" => processed = snapAtLoad

\* A finished call that processed the list an addSource had published before it
\* began, although another writer published a different list during the call.
C7_Witness ==
    /\ apc = "done"
    /\ Len(processed) >= 1
    /\ processed = snapAtLoad
    /\ lastPublished # snapAtLoad

\* -------------------------------------------------- claims checked on SpecDsp
AudioCalls == {"Sampler::process", "SamplePlayer::process", "Mixer::process"}

\* What the sources j, j + 1, ... of the processed list add to output sample i.
RECURSIVE SumAt(_, _, _)
SumAt(contribs, j, i) ==
    IF j > Len(contribs) THEN 0 ELSE contribs[j][i] + SumAt(contribs, j + 1, i)

AllEqual(data, v) == \A i \in DOMAIN data : data[i] = v

\* C4: Mixer::process is additive and does not clear: every output sample
\* after the call is its value before the call plus the sum of what each
\* source of the list adds.
C4_MixerAdditive ==
    call.op = "Mixer::process" =>
        /\ DOMAIN call.out.data_ = DOMAIN call.in.data_
        /\ \A i \in DOMAIN call.out.data_ :
               call.out.data_[i] = call.in.data_[i] + SumAt(call.contribs, 1, i)

\* Two sources contribute constants a and b into a zeroed buffer, and every
\* frame holds a + b.
C4_Witness ==
    /\ call.op = "Mixer::process"
    /\ call.in.numFrames_ >= 2
    /\ AllEqual(call.in.data_, 0)
    /\ Len(call.contribs) = 2
    /\ \E a \in {Unit, 2 * Unit} : \E b \in {Unit, 2 * Unit} :
           /\ a # b
           /\ AllEqual(call.contribs[1], a)
           /\ AllEqual(call.contribs[2], b)
           /\ AllEqual(call.out.data_, a + b)

\* C5: once clearSources has returned and no addSource has followed it, a
\* Mixer::process call leaves the output buffer exactly as it was, whatever
\* sources the cleared list held and whatever their playing state.
C5_ClearThenProcessSilent ==
    (call.op = "Mixer::process" /\ lastWriter.op = "clearSources") =>
        call.out = call.in

\* The cleared list held a source that was still playing when process ran.
C5_Witness ==
    /\ call.op = "Mixer::process"
    /\ lastWriter.op = "clearSources"
    /\ call.in.numFrames_ >= 1
    /\ \E i \in DOMAIN lastWriter.replaced :
           ~SourceIsFinished(call.pre, lastWriter.replaced[i])
    /\ call.out = call.in

\* C8: the audio path performs no heap allocation: no process call of a
\* Sampler, a SamplePlayer or a Mixer allocates.
C8_NoHeapAllocation == call.op \in AudioCalls => call.allocs = 0

\* C9: process on a finished Sampler, SamplePlayer or Mixer leaves every
\* sample of the output buffer and the state of the sources unchanged, so
\* the source is still finished afterwards.
C9_FinishedProcessIsNoOp ==
    (call.op \in AudioCalls /\ call.wasFinished) =>
        /\ call.out = call.in
        /\ St = call.pre
        /\ call.op = "Sampler::process" => SamplerIsFinished(sampler)
        /\ call.op = "SamplePlayer::process" => PlayerIsFinished(player)
        /\ call.op = "Mixer::process" => MixerIsFinished(St, mixer)

\* A finished mixer holding a sampler and a stopped player that still has
\* sample frames ahead of its read position, processed into a buffer
\* pre-filled with the sentinel.
C9_Witness ==
    /\ call.op = "Mixer::process"
    /\ call.wasFinished
    /\ {mixer[i] : i \in DOMAIN mixer} = SourceIds
    /\ call.in.numFrames_ >= 1
    /\ AllEqual(call.in.data_, Sentinel)
    /\ ~call.pre.sampler.sampleData_.null
    /\ ~call.pre.player.sampleData_.null
    /\ call.pre.player.readPosition_ < call.pre.player.sampleData_.numFrames_
    /\ call.out = call.in

\* ---------------------------------------------- claims checked on SpecSampler
\* The output frames a source can supply to a voice at its step: the frames f
\* with f * step_ < numFrames_.
Supply(v) == ((v.lastIndex_ + 1) * PhaseDen + v.step_ - 1) \div v.step_

\* C10: a started voice always finishes: once the output frames requested
\* from it by process calls exceed what the source can supply at the voice's
\* step, the sampler is finished.
C10_StartedVoiceFinishes ==
    \A i \in DOMAIN sampler.voices_ :
        sampler.voices_[i].active_ => sampler.voices_[i].req <= Supply(sampler.voices_[i])

\* A source of N frames at step 1 is finished after one process call of 2N
\* frames.
C10_Witness ==
    /\ call.op = "Sampler::process"
    /\ call.pre.sampler.voices_[1].active_
    /\ call.pre.sampler.voices_[1].phase_ = 0
    /\ call.pre.sampler.voices_[1].step_ = PhaseDen
    /\ call.in.numFrames_ = 2 * call.pre.sampler.voices_[1].numFrames_
    /\ sampler.voices_[1].req > Supply(sampler.voices_[1])
    /\ SamplerIsFinished(sampler)

\* The voices of a sampler that are not finished.
ActiveVoices(s) == {i \in DOMAIN s.voices_ : ~Finished(s.voices_[i])}

\* The output frames one render call of framesToRender frames writes for a
\* voice at step 1: from its source position to the last source frame.
RenderedAtStep1(v, framesToRender) ==
    Min(framesToRender, v.lastIndex_ + 1 - (v.phase_ \div PhaseDen))

\* C11: mixing of a mono source is additive and gain-scaled: the gain a
\* started voice takes is the velocity clamped to [0, 1], and a voice at
\* step 1 over a constant mono source of value s adds gain * s to every
\* output channel at every rendered frame.
C11_MonoAdditiveGainScaled ==
    /\ call.op = "Sampler::noteOn" =>
           LET i == AllocVoice(call.pre.sampler)
           IN  sampler.voices_[i].active_ =>
                   /\ call.args[2] <= 0 => sampler.voices_[i].gain_ = 0
                   /\ call.args[2] >= GainDen => sampler.voices_[i].gain_ = GainDen
                   /\ call.args[2] \in 0..GainDen =>
                          sampler.voices_[i].gain_ = call.args[2]
    /\ call.op = "Sampler::process" =>
           \A i \in DOMAIN call.pre.sampler.voices_ :
               LET v == call.pre.sampler.voices_[i]
               IN  ( /\ ActiveVoices(call.pre.sampler) = {i}
                     /\ v.step_ = PhaseDen
                     /\ v.srcChannels_ = 1
                     /\ AllEqual(v.sample_.data_, v.sample_.data_[1]) ) =>
                       \A c \in 0..(call.in.numChannels_ - 1) :
                           \A f \in 0..(RenderedAtStep1(v, call.in.numFrames_) - 1) :
                               call.out.data_[RawIndex(call.out, c, f)]
                                   = call.in.data_[RawIndex(call.in, c, f)]
                                     + (v.gain_ * v.sample_.data_[1]) \div GainDen

\* A voice started with velocity 0.5 at step 1 over a constant mono source of
\* value 2.0 renders into a zeroed stereo buffer, which then holds 1.0 in
\* both channels of the rendered frames.
C11_Witness ==
    /\ call.op = "Sampler::process"
    /\ call.in.numChannels_ = 2
    /\ AllEqual(call.in.data_, 0)
    /\ LET v == call.pre.sampler.voices_[1]
       IN  /\ v.active_
           /\ v.step_ = PhaseDen
           /\ v.phase_ = 0
           /\ v.gain_ = 1
           /\ v.sample_ = MonoConst(MaxSrcFrames, 2)
           /\ call.in.numFrames_ >= MaxSrcFrames
           /\ \A c \in 0..1 : \A f \in 0..(MaxSrcFrames - 1) :
                  call.out.data_[RawIndex(call.out, c, f)] = Unit

\* The source channel render reads for output channel c.
SrcChannel(v, c) == IF v.srcChannels_ = 1 THEN 0 ELSE c

\* The output channels render writes.
WrittenChannels(v, out) ==
    IF v.srcChannels_ = 1
    THEN 0..(out.numChannels_ - 1)
    ELSE 0..(Min(out.numChannels_, v.srcChannels_) - 1)

\* C12: with note == rootNote, tuneCents == 0 and nativeRate == engineRate a
\* start sets step to exactly 1 and phase to 0, and the k-th output frame
\* rendered after it reads source frame k with fraction 0 (no interpolation).
C12_UnityStep ==
    /\ call.op = "Sampler::noteOn" =>
           LET s == call.pre.sampler
               i == AllocVoice(s)
           IN  ( /\ call.args[1] = s.rootNote_
                 /\ s.tuneCents_ = 0
                 /\ s.nativeRate_ = s.engineRate_
                 /\ s.nativeRate_ > 0
                 /\ ~s.sampleData_.null
                 /\ s.sampleData_.numFrames_ >= 2 ) =>
                   /\ sampler.voices_[i].active_
                   /\ sampler.voices_[i].step_ = PhaseDen
                   /\ sampler.voices_[i].phase_ = 0
    /\ call.op = "Sampler::process" =>
           \A i \in DOMAIN call.pre.sampler.voices_ :
               LET v == call.pre.sampler.voices_[i]
                   k == v.phase_ \div PhaseDen
                   n == RenderedAtStep1(v, call.in.numFrames_)
               IN  (ActiveVoices(call.pre.sampler) = {i} /\ v.step_ = PhaseDen) =>
                       /\ v.phase_ = k * PhaseDen
                       /\ sampler.voices_[i].phase_ = (k + n) * PhaseDen
                       /\ \A c \in WrittenChannels(v, call.in) : \A f \in 0..(n - 1) :
                              call.out.data_[RawIndex(call.out, c, f)]
                                  = call.in.data_[RawIndex(call.in, c, f)]
                                    + (v.gain_ * ReadAt(v.sample_, SrcChannel(v, c), k + f))
                                          \div GainDen

\* A voice freshly started at step 1 with full gain over the ramp renders
\* into a zeroed mono buffer of the ramp's length, which then holds the ramp.
C12_Witness ==
    /\ call.op = "Sampler::process"
    /\ call.in = AudioBuffer(1, MaxSrcFrames)
    /\ LET v == call.pre.sampler.voices_[1]
       IN  /\ v.active_
           /\ v.step_ = PhaseDen
           /\ v.phase_ = 0
           /\ v.gain_ = GainDen
           /\ v.sample_ = MonoRamp(MaxSrcFrames)
    /\ call.out = MonoRamp(MaxSrcFrames)

\* Voice i is the first finished voice of s.
FirstFinished(s, i) ==
    /\ Finished(s.voices_[i])
    /\ \A j \in DOMAIN s.voices_ : j < i => ~Finished(s.voices_[j])

\* Voice i is the one the allocation policy picks: the first finished voice,
\* or voice 0 (position 1 of voices_) when none is finished.
Chosen(s, i) ==
    IF \E j \in DOMAIN s.voices_ : Finished(s.voices_[j])
    THEN FirstFinished(s, i)
    ELSE i = 1

Startable(s) ==
    /\ ~s.sampleData_.null
    /\ s.sampleData_.numFrames_ >= 2
    /\ s.nativeRate_ > 0
    /\ s.engineRate_ > 0

\* Rendering has exhausted the sample of voice v.
Exhausted(v) == v.phase_ >= v.lastIndex_ * PhaseDen

C15_ConfigureMakesIdle ==
    call.op \in {"Sampler::setEngineRate", "Sampler::setNativeRate"} =>
        SamplerIsFinished(sampler)

\* C16: an unusable configuration (null sample, fewer than 2 frames, a rate
\* <= 0) makes the voice inert: while it lasts the sampler is finished
\* and no process call changes an output sample.
C16_UnusableConfigurationInert ==
    /\ ~Startable(sampler) => SamplerIsFinished(sampler)
    /\ (call.op = "Sampler::process" /\ ~Startable(call.pre.sampler)) =>
           call.out = call.in

\* C30: for a multi-channel source, SamplerVoice::render adds channel c of
\* the source only to channel c of the output, for c < min(output channels,
\* source channels): output channels with index >= source channels are left
\* unchanged and source channels with index >= output channels are dropped.
C30_MultiChannelMapping ==
    call.op = "Sampler::process" =>
        \A n \in DOMAIN call.pre.sampler.voices_ :
            LET v     == call.pre.sampler.voices_[n]
                src   == v.sample_
                outCh == call.in.numChannels_
            IN  (ActiveVoices(call.pre.sampler) = {n} /\ v.srcChannels_ >= 2) =>
                    \A c \in 0..(outCh - 1), f \in 0..(call.in.numFrames_ - 1) :
                        LET k     == c + f * outCh + 1
                            phase == v.phase_ + f * v.step_
                            i     == phase \div PhaseDen
                            x0    == src.data_[c + i * v.srcChannels_ + 1]
                            x1    == src.data_[c + (i + 1) * v.srcChannels_ + 1]
                            s     == IF i = v.lastIndex_ THEN x0
                                     ELSE x0 + ((x1 - x0) * (phase % PhaseDen)) \div PhaseDen
                        IN  IF c < v.srcChannels_ /\ i <= v.lastIndex_
                            THEN call.out.data_[k]
                                     = call.in.data_[k] + (v.gain_ * s) \div GainDen
                            ELSE call.out.data_[k] = call.in.data_[k]

\* A stereo source (+1.0 left, -1.0 right) at full gain rendered into the
\* three-channel buffer: channel 0 gains 1.0, channel 1 loses 1.0 and channel
\* 2 keeps its value.
C30_Witness ==
    /\ call.op = "Sampler::process"
    /\ call.in = Fill(AudioBuffer(3, 1), Sentinel)
    /\ LET v == call.pre.sampler.voices_[1]
       IN  /\ v.active_
           /\ v.srcChannels_ = 2
           /\ v.gain_ = GainDen
    /\ call.out.data_ = <<Sentinel + Unit, Sentinel - Unit, Sentinel>>

\* ---------------------------------------------- claims checked on SpecBuffer
\* C17: the AudioBuffer size invariant: after construction and after any
\* sequence of fill, applyGain, copyFrom, element writes and view writes,
\* the length of data_ is numChannels_ * numFrames_ and no call has changed
\* numChannels_, numFrames_ or the length.
C17_SizeInvariant ==
    /\ Len(buf.data_) = buf.numChannels_ * buf.numFrames_
    /\ bcall.op # "none" =>
           /\ buf.numChannels_ = bcall.pre.numChannels_
           /\ buf.numFrames_ = bcall.pre.numFrames_
           /\ Len(buf.data_) = Len(bcall.pre.data_)

\* copyFrom from a source range one longer than a buffer of two channels:
\* the leading samples are taken and the extra one is dropped.
C17_Witness ==
    /\ bcall.op = "copyFrom"
    /\ buf.numChannels_ = 2
    /\ buf.numFrames_ >= 1
    /\ Len(bcall.src) = Len(bcall.pre.data_) + 1
    /\ bcall.pre.data_ # buf.data_
    /\ buf.data_ = SubSeq(bcall.src, 1, Len(buf.data_))

ElementWrites == {"at", "at_unchecked", "channel[]", "raw.at", "iterator"}

\* C18: every access path denotes data[f * numChannels + c] for every valid
\* (c, f): at, at_unchecked, channel(c)[f], channel(c).raw().at(f) and the
\* f-th element of channel(c)'s iterator, which advances by numChannels
\* elements per step and reaches end() after numFrames steps; a write through
\* any one path is read back through every other and changes nothing else.
C18_AccessPathsAgree ==
    /\ \A c \in 0..(buf.numChannels_ - 1) :
           /\ Nth(Begin(buf, c), buf.numFrames_) = End(buf, c)
           /\ \A f \in 0..(buf.numFrames_ - 1) :
                  /\ AtIndex(buf, c, f) = f * buf.numChannels_ + c
                  /\ AtUncheckedIndex(buf, c, f) = f * buf.numChannels_ + c
                  /\ ViewIndex(buf, c, f) = f * buf.numChannels_ + c
                  /\ RawAt(Raw(buf, c), f) = f * buf.numChannels_ + c
                  /\ Deref(Nth(Begin(buf, c), f)) = f * buf.numChannels_ + c
                  /\ Deref(Incr(Nth(Begin(buf, c), f))) - Deref(Nth(Begin(buf, c), f))
                         = buf.numChannels_
    /\ (bcall.op \in ElementWrites /\ ~bcall.threw) =>
           /\ Cell(buf, AtIndex(buf, bcall.c, bcall.f)) = bcall.v
           /\ Cell(buf, AtUncheckedIndex(buf, bcall.c, bcall.f)) = bcall.v
           /\ Cell(buf, ViewIndex(buf, bcall.c, bcall.f)) = bcall.v
           /\ Cell(buf, RawAt(Raw(buf, bcall.c), bcall.f)) = bcall.v
           /\ Cell(buf, Deref(Nth(Begin(buf, bcall.c), bcall.f))) = bcall.v
           /\ \A k \in DOMAIN buf.data_ :
                  k # bcall.f * buf.numChannels_ + bcall.c + 1 =>
                      buf.data_[k] = bcall.pre.data_[k]

\* A write through the iterator of channel 1, one step after begin(), of a
\* two-channel two-frame buffer is read back through at(1, 1).
C18_Witness ==
    /\ bcall.op = "iterator"
    /\ buf.numChannels_ = 2
    /\ buf.numFrames_ = 2
    /\ bcall.c = 1
    /\ bcall.f = 1
    /\ Cell(bcall.pre, AtIndex(buf, 1, 1)) # bcall.v
    /\ ~AtThrows(buf, 1, 1)
    /\ Cell(buf, AtIndex(buf, 1, 1)) = bcall.v

\* C19: invalid indices are reported, not acted on: at(c, f) fails exactly
\* when c >= numChannels or f >= numFrames, channel(c) (alone or followed by
\* an element or whole-channel write) fails exactly when c >= numChannels,
\* and a failed call leaves every sample as it was.
C19_OutOfRangeReported ==
    /\ bcall.op \in {"at", "channel[]"} =>
           (bcall.threw <=> ( \/ bcall.c >= bcall.pre.numChannels_
                              \/ bcall.f >= bcall.pre.numFrames_ ))
    /\ bcall.op \in {"channel", "channel.fill", "channel.applyGain", "channel.copyFrom"} =>
           (bcall.threw <=> bcall.c >= bcall.pre.numChannels_)
    /\ bcall.threw => buf = bcall.pre

\* at(2, 1) on a two-channel two-frame buffer holding non-zero samples fails
\* and leaves them.
C19_Witness ==
    /\ bcall.op = "at"
    /\ bcall.c = 2
    /\ bcall.f = 1
    /\ bcall.v = 0
    /\ buf.numChannels_ = 2
    /\ buf.numFrames_ = 2
    /\ \A k \in DOMAIN buf.data_ : buf.data_[k] # 0
    /\ bcall.threw
    /\ buf = bcall.pre

\* C20: constructing an AudioBuffer with zero channels is rejected: no
\* buffer with numChannels_ == 0 exists.
C20_NoZeroChannelBuffer == ~buf.null => buf.numChannels_ # 0

\* C21: channel views are isolated: an operation on the view channel(c)
\* (element write, fill, applyGain, copyFrom, a write through raw() or through
\* the strided iterator) leaves every sample of every other channel c'
\* unchanged.
C21_ChannelViewsIsolated ==
    bcall.op \in {"channel[]", "raw.at", "iterator",
                  "channel.fill", "channel.applyGain", "channel.copyFrom"} =>
        \A cc \in 0..(buf.numChannels_ - 1), f \in 0..(buf.numFrames_ - 1) :
            cc # bcall.c =>
                buf.data_[f * buf.numChannels_ + cc + 1]
                    = bcall.pre.data_[f * buf.numChannels_ + cc + 1]

\* channel(0).fill(0) on a two-channel two-frame buffer of ones: channel 0 is
\* silent, channel 1 still holds ones.
C21_Witness ==
    /\ bcall.op = "channel.fill"
    /\ bcall.c = 0
    /\ bcall.v = 0
    /\ ~bcall.threw
    /\ buf.numChannels_ = 2
    /\ buf.numFrames_ = 2
    /\ buf.data_ = <<0, 1, 0, 1>>

\* C22: AudioBuffer::copyFrom over a source of n samples overwrites exactly
\* the leading min(n, data length) samples with the source values in order,
\* ignores the source samples beyond the buffer's length, leaves every sample
\* at index >= n unchanged and never changes the buffer's size.
C22_CopyFromLeading ==
    bcall.op = "copyFrom" =>
        /\ Len(buf.data_) = Len(bcall.pre.data_)
        /\ buf.numChannels_ = bcall.pre.numChannels_
        /\ buf.numFrames_ = bcall.pre.numFrames_
        /\ \A k \in 1..Len(buf.data_) :
               /\ k <= Len(bcall.src) => buf.data_[k] = bcall.src[k]
               /\ k > Len(bcall.src) => buf.data_[k] = bcall.pre.data_[k]

\* A source of three zeros copied into a two-channel two-frame buffer of
\* ones: three samples are replaced and the last one is kept.
C22_Witness ==
    /\ bcall.op = "copyFrom"
    /\ bcall.src = <<0, 0, 0>>
    /\ bcall.pre.data_ = <<1, 1, 1, 1>>
    /\ buf.data_ = <<0, 0, 0, 1>>

\* ----------------------------------------------- claims checked on SpecStore
\* C23: BufferStore keys are unique and strictly increasing: every insert
\* returns a key greater than every key returned by an insert that completed
\* before it began, concurrent inserts return pairwise distinct keys (N
\* inserts on a fresh store consume exactly the keys 0..N-1), and no key is
\* handed out again, erased or not.
C23_KeysUniqueIncreasing ==
    /\ \A i, j \in DOMAIN bsHist.keys : i # j => bsHist.keys[i] # bsHist.keys[j]
    /\ \A t \in StoreThreads :
           (bsThreads[t].op = "insert" /\ bsThreads[t].pc = "done") =>
               /\ \A k \in bsThreads[t].before : bsThreads[t].ret > k
               /\ \A i \in DOMAIN bsHist.keys : bsThreads[t].ret # bsHist.keys[i]
               /\ \A u \in StoreThreads \ {t} :
                      (bsThreads[u].op = "insert" /\ bsThreads[u].pc = "done") =>
                          bsThreads[u].ret # bsThreads[t].ret
    /\ (\A t \in StoreThreads : bsThreads[t].op # "insert") =>
           {bsHist.keys[i] : i \in DOMAIN bsHist.keys} = 0..(Len(bsHist.keys) - 1)

\* Two inserts that overlap, neither having returned when the other began,
\* hold the keys 0 and 1, after an earlier key was erased.
C23_Witness ==
    /\ \A t \in StoreThreads :
           /\ bsThreads[t].op = "insert"
           /\ bsThreads[t].pc = "done"
           /\ bsThreads[t].before = {0}
    /\ bsHist.erased = {0}
    /\ {bsThreads[t].ret : t \in StoreThreads} = {1, 2}

\* C24: BufferStore round trip: get(k) returns the buffer passed to the
\* insert that stored it under k, from that insert until erase(k); after an
\* erase(k) that returned true, get(k) returns null; erase of a key that is
\* not present returns false and leaves every entry as it was; get of a key
\* never inserted returns null.
C24_RoundTrip ==
    /\ store.cache_ = Live(bsHist)
    /\ \A t \in StoreThreads :
           (bsThreads[t].pc = "done" /\ bsThreads[t].op \in {"get", "erase"}) =>
               bsThreads[t].ret = bsThreads[t].exp

\* A get that finds the second buffer under key 1 while key 0 has been
\* erased, next to a get of the erased key that finds nothing.
C24_Witness ==
    /\ bsHist.erased = {0}
    /\ bsHist.given = (0 :> "b1") @@ (1 :> "b2")
    /\ \E t \in StoreThreads :
           /\ bsThreads[t].op = "get"
           /\ bsThreads[t].pc = "done"
           /\ bsThreads[t].key = 1
           /\ bsThreads[t].ret = "b2"

\* ---------------------------------------------- claims checked on SpecEngine
\* C25: AudioEngine::stopStream leaves the stream closed from every engine
\* state (never started, running, open but not running after a failed start,
\* already stopped): afterwards the stream is neither running nor open.
C25_StopLeavesClosed ==
    ecall.op = "stopStream" => eng.audio_.state = "closed"

\* C26 as stated: startStream returns true exactly when the stream is running
\* afterwards, and when it returns false isRunning() is false.
C26_TrueIffRunning ==
    ecall.op = "startStream" => (ecall.ret <=> eng.audio_.state = "running")

\* C26, amended: startStream returns true only when the stream is running
\* afterwards with the mix buffer sized (negotiated channels, negotiated
\* block size); called while the stream is closed it returns true exactly
\* when the stream is running afterwards, and false leaves it not running;
\* called while a stream is open or running it returns false and changes
\* nothing, so a running stream keeps running.
C26_StartStreamResult ==
    ecall.op = "startStream" =>
        /\ ecall.ret =>
               /\ eng.audio_.state = "running"
               /\ ~eng.mixerBuffer_.null
               /\ eng.mixerBuffer_.numChannels_ = eng.audio_.nChannels
               /\ eng.mixerBuffer_.numFrames_ = eng.audio_.bufferSize
               /\ Len(eng.mixerBuffer_.data_) = eng.audio_.nChannels * eng.audio_.bufferSize
        /\ ecall.pre.audio_.state = "closed" =>
               (ecall.ret <=> eng.audio_.state = "running")
        /\ ecall.pre.audio_.state # "closed" => (~ecall.ret /\ eng = ecall.pre)

\* A second startStream on a started engine: it reports failure and the
\* stream runs on with the mix buffer it had.
C26_Witness ==
    /\ ecall.op = "startStream"
    /\ ecall.pre.audio_.state = "running"
    /\ ~ecall.ret
    /\ eng.audio_.state = "running"
    /\ eng.mixerBuffer_.numChannels_ = 2

\* C27: each engine block is clear, then mix, then copy: the samples
\* delivered to the hardware buffer equal what the sources of the block's
\* snapshot add into a zeroed mix buffer.
C27_BlockIsClearMixCopy ==
    ecall.op = "processBlock" =>
        /\ Len(ecall.hw) = ecall.pre.audio_.nChannels * ecall.pre.audio_.bufferSize
        /\ Len(ecall.contribs) = Len(ecall.srcs)
        /\ \A i \in DOMAIN ecall.hw : ecall.hw[i] = SumAt(ecall.contribs, 1, i)

\* C28: while the stream is running no control-side operation has destroyed
\* the engine's source list or its mix buffer, and no audio callback has
\* touched a destroyed one.
C28_MixBufferOutlivesStream ==
    /\ eng.audio_.state = "running" => eng.destroyed = 0
    /\ ecall.op = "processBlock" => ~ecall.touched

\* ----------------------------------------------- claims checked on SpecVoice
\* C29: the voice invariant holds in every state reachable through
\* configure, start and render: an active voice has step > 0 and
\* 0 <= phase < lastIndex + epsilon, lastIndex being the last frame index of
\* the sample currently configured (epsilon: the resolution of phase).
C29_VoiceInvariant ==
    voice.active_ =>
        /\ voice.step_ > 0
        /\ voice.phase_ >= 0
        /\ voice.phase_ < voice.lastIndex_ * PhaseDen + 1

\* -------------------------------------- further claims checked on SpecSampler
\* C31: Sampler::setRootNote, setTuneCents and noteOff leave the phase, step,
\* gain and active flag of every voice unchanged; the new root note or tuning
\* reaches a voice only through the step a later noteOn computes.
C31_SettersLeaveVoices ==
    /\ [][(DspSetRootNote(Notes) \/ DspSetTuneCents(Cents) \/ DspNoteOff(Notes))
              => sampler'.voices_ = sampler.voices_]_vars
    /\ [](\A i \in DOMAIN sampler.voices_ :
              (call.op = "Sampler::noteOn" /\ Chosen(call.pre.sampler, i)
                   /\ Startable(call.pre.sampler))
                  => sampler.voices_[i].step_ =
                         (call.pre.sampler.nativeRate_ * PhaseDen
                              * Pow2((call.args[1] - call.pre.sampler.rootNote_) \div 12
                                     + call.pre.sampler.tuneCents_ \div 1200))
                             \div (call.pre.sampler.engineRate_
                                      * Pow2(0 - ((call.args[1] - call.pre.sampler.rootNote_)
                                                      \div 12
                                                  + call.pre.sampler.tuneCents_ \div 1200))))

\* A voice started one octave above the root plays on, part-way through the
\* sample at its old step, after the root note was moved up to its note: no
\* noteOn at the present root and tuning gives that step.
C31_Witness ==
    /\ call = Idle
    /\ sampler.rootNote_ = 60
    /\ sampler.tuneCents_ = 0
    /\ sampler.voices_[1].active_
    /\ sampler.voices_[1].phase_ > 0
    /\ sampler.voices_[1].step_ = (2 * sampler.nativeRate_ * PhaseDen) \div sampler.engineRate_

\* ------------------------------------------------ claims checked on SpecNest
\* The leaf source id has no more audio to produce.
LeafFinished(id) ==
    IF id = "sampler" THEN \A i \in DOMAIN sampler.voices_ : ~sampler.voices_[i].active_
    ELSE ~player.isPlaying_

\* C32: Mixer::isFinished() returns true iff every source of the snapshot it
\* loads reports isFinished(); a mixer with no sources (freshly constructed
\* or after clearSources) is finished, and a nested mixer is finished iff all
\* sources below it are.
C32_FinishedIffAllSources ==
    call.op = "Mixer::isFinished" =>
        LET below == \A j \in DOMAIN submixer : LeafFinished(submixer[j])
        IN  /\ call.args[1] = "second" => (call.wasFinished <=> below)
            /\ call.args[1] = "first" =>
                   /\ call.wasFinished <=>
                          \A i \in DOMAIN mixer :
                              IF mixer[i] = "mixer" THEN below ELSE LeafFinished(mixer[i])
                   /\ mixer = <<>> => call.wasFinished

\* The first mixer holds only the second, whose sources are an idle sampler
\* and a playing sample player: the first mixer is not finished.
C32_Witness ==
    /\ call.op = "Mixer::isFinished"
    /\ call.args[1] = "first"
    /\ mixer = <<"mixer">>
    /\ submixer = <<"sampler", "player">>
    /\ LeafFinished("sampler")
    /\ ~LeafFinished("player")
    /\ ~call.wasFinished

\* ---------------------------------------- further claims checked on SpecBuffer
\* C33: ChannelView element access is bounds-checked for every index:
\* view[i] fails with OutOfRange for every i >= numFrames, also when i does
\* not fit in 32 bits, and succeeds exactly for i < numFrames.
C33_ViewIndexChecked ==
    (bcall.op = "channel[]" /\ bcall.c < bcall.pre.numChannels_) =>
        (bcall.threw <=> (bcall.hi > 0 \/ bcall.f >= bcall.pre.numFrames_))

\* ------------------------------------------ further claims checked on SpecDsp
\* C34: the SamplePlayer play / stop state machine: a new player is finished
\* with position 0; play() makes it not finished and resets the position to
\* 0 whatever the position was; stop() makes it finished and resets the
\* position to 0; setPosition changes only the position.
C34_PlayStopStateMachine ==
    /\ (~player.isPlaying_ /\ player.readPosition_ = 0)
    /\ [](/\ call.op = "SamplePlayer::play" =>
                 player = [call.pre.player EXCEPT !.isPlaying_ = TRUE,
                                                 !.readPosition_ = 0]
          /\ call.op = "SamplePlayer::stop" =>
                 player = [call.pre.player EXCEPT !.isPlaying_ = FALSE,
                                                 !.readPosition_ = 0]
          /\ call.op = "SamplePlayer::setPosition" =>
                 player = [call.pre.player EXCEPT !.readPosition_ = call.args[1]]
          /\ call.op \in {"SamplePlayer::play", "SamplePlayer::stop",
                          "SamplePlayer::setPosition"} =>
                 (PlayerIsFinished(player) <=> ~player.isPlaying_))

\* play() on a player that is already playing, part-way through its sample:
\* it plays on from position 0.
C34_Witness ==
    /\ call.op = "SamplePlayer::play"
    /\ call.pre.player.isPlaying_
    /\ call.pre.player.readPosition_ > 0
    /\ call.pre.player.readPosition_ < call.pre.player.sampleData_.numFrames_
    /\ player.isPlaying_
    /\ player.readPosition_ = 0

\* ---------------------------------------- further claims checked on SpecVoice
\* C35: the output of a started voice does not depend on how it is cut into
\* blocks: n frames rendered by one render call are the frames rendered by
\* two consecutive calls of k and n - k frames, for every k <= n, with the
\* same finished() afterwards (and so for every cut into more blocks).
C35_BlockCutIndependent ==
    voice.active_ =>
        \A n \in 0..MaxOutFrames, k \in 0..MaxOutFrames :
            k <= n =>
                LET whole == Render(voice, AudioBuffer(1, n), n)
                    head  == Render(voice, AudioBuffer(1, n), k)
                    tail  == Render(head.voice, AudioBuffer(1, n), n - k)
                IN  /\ \A f \in 1..n :
                           whole.out.data_[f] = IF f <= k THEN head.out.data_[f]
                                                ELSE tail.out.data_[f - k]
                    /\ Finished(whole.voice) <=> Finished(tail.voice)

\* ---------------------------------------- further claims checked on SpecMixer
\* C36: a clear is not undone by a concurrent add: once a clearSources call
\* has returned, no source that was in the mixer when that call began is in
\* the current snapshot (every addSource call here adds a fresh source, so
\* none of them is added anew).
C36_ClearNotUndone ==
    \A i \in DOMAIN lists[activeSources_].items :
        lists[activeSources_].items[i] \notin clearHist.done

\* -------------------------------------- further claims checked on SpecSampler
\* C37: rendering stays inside both buffers: in every state reachable
\* through Sampler, a render call made by Sampler::process reads the source
\* only at frames 0 .. numFrames - 1 of the sampler's sample and writes the
\* output only at frames 0 .. numFrames - 1 of the output buffer.
C37_RenderStaysInside ==
    call.op = "Sampler::process" =>
        \A i \in DOMAIN call.pre.sampler.voices_ :
            ~Finished(call.pre.sampler.voices_[i]) =>
                LET a == RenderAccesses(call.pre.sampler.voices_[i], call.in,
                                        call.in.numFrames_)
                IN  /\ \A r \in a.reads :
                           /\ r >= 0
                           /\ r < call.pre.sampler.sampleData_.numFrames_
                           /\ r < call.pre.sampler.voices_[i].sample_.numFrames_
                    /\ \A w \in a.writes : w >= 0 /\ w < call.in.numFrames_

\* A process call whose voice reads up to the last source frame and writes
\* up to the last output frame.
C37_Witness ==
    /\ call.op = "Sampler::process"
    /\ ~Finished(call.pre.sampler.voices_[1])
    /\ call.in.numFrames_ = MaxOutFrames
    /\ LET a == RenderAccesses(call.pre.sampler.voices_[1], call.in, call.in.numFrames_)
       IN  /\ call.pre.sampler.sampleData_.numFrames_ - 1 \in a.reads
           /\ call.in.numFrames_ - 1 \in a.writes
    /\ call.out # call.in

\* C38: SamplePlayer::process on a playing player adds exactly
\* min(output frames, source frames - position) source frames (none when the
\* position is at or beyond the end), starting at the current position,
\* advances the position by that count and is finished afterwards exactly
\* when the position has reached the source length; whatever position
\* setPosition has set, no source frame at an index >= the source length is
\* read.
C38_PlayerProcess ==
    (call.op = "SamplePlayer::process" /\ ~call.wasFinished
         /\ ~call.pre.player.sampleData_.null) =>
        LET p     == call.pre.player
            src   == p.sampleData_
            left  == IF p.readPosition_ < src.numFrames_
                     THEN src.numFrames_ - p.readPosition_ ELSE 0
            count == IF call.in.numFrames_ < left THEN call.in.numFrames_ ELSE left
            outCh == call.in.numChannels_
            srcCh == src.numChannels_
        IN  /\ player.readPosition_ = p.readPosition_ + count
            /\ player.sampleData_ = src
            /\ PlayerIsFinished(player) <=> player.readPosition_ >= src.numFrames_
            /\ count > 0 => p.readPosition_ + count - 1 < src.numFrames_
            /\ DOMAIN call.out.data_ = DOMAIN call.in.data_
            /\ \A c \in 0..(outCh - 1), f \in 0..(call.in.numFrames_ - 1) :
                   call.out.data_[f * outCh + c + 1] =
                       call.in.data_[f * outCh + c + 1]
                       + IF f < count /\ (srcCh = 1 \/ c < srcCh)
                         THEN src.data_[(p.readPosition_ + f) * srcCh
                                            + (IF srcCh = 1 THEN 0 ELSE c) + 1]
                         ELSE 0

\* A playing player moved to frame 1 of its sample renders the rest of it
\* into a longer buffer and finishes.
C38_Witness ==
    /\ call.op = "SamplePlayer::process"
    /\ ~call.wasFinished
    /\ call.pre.player.readPosition_ = 1
    /\ call.pre.player.sampleData_ = MonoRamp(MaxSrcFrames)
    /\ call.in.numFrames_ = MaxOutFrames
    /\ player.readPosition_ = MaxSrcFrames
    /\ PlayerIsFinished(player)
    /\ call.out # call.in

\* A playing player moved beyond the end of its sample: process adds
\* nothing and finishes it.
C38_WitnessBeyond ==
    /\ call.op = "SamplePlayer::process"
    /\ ~call.wasFinished
    /\ call.pre.player.readPosition_ > call.pre.player.sampleData_.numFrames_
    /\ call.out = call.in
    /\ PlayerIsFinished(player)

\* --------------------------------------- further claims checked on SpecEngine
\* C39: a failed start leaves the engine restartable: whenever startStream,
\* called with no stream open, returns false (open failed, or open succeeded
\* and start failed), the stream is not left open, so a startStream on a
\* valid device that opens and starts succeeds afterwards.
C39_FailedStartRestartable ==
    (ecall.op = "startStream" /\ ~ecall.ret /\ ecall.pre.audio_.state = "closed") =>
        /\ eng.audio_.state = "closed"
        /\ StartStream(eng, 1, 1, TRUE, TRUE).ret

\* ---------------------------------------- further claims checked on SpecStore
\* C40: the BufferStore never holds more buffers than the capacity given to
\* its constructor.
C40_WithinCapacity == Cardinality(DOMAIN store.cache_) <= store.capacity_

====
